---- MODULE Spec2Model ----
(***************************************************************************)
(* The game engine of tiktoklivegame: GamingSystem (lucky wheel, poll,     *)
(* race) of src/gaming-system.js and DJGameSystem of                       *)
(* src/dj-game-system.js, with the setTimeout callbacks they arm.          *)
(*                                                                         *)
(* Time is counted in ticks of 5 seconds (the cool-down between DJ rounds, *)
(* 5000 ms, is one tick).  A pending setTimeout callback is a record with  *)
(* the tick at which it is due; the clock does not pass a due callback.    *)
(* JavaScript strings are sequences of one-character strings.  null and    *)
(* undefined are the empty sequence None, a present value x is Some(x).    *)
(* A Map is a function whose domain is the set of its keys; a Map whose    *)
(* iteration order is read by the code is a sequence in insertion order.   *)
(* The field id of a game record is the identity of the JavaScript object. *)
(***************************************************************************)
EXTENDS Integers, Sequences, FiniteSets, Bags, TLC

VARIABLES
    activeGames,   \* GamingSystem.activeGames: sessionId -> game
    gameHistory,   \* GamingSystem.gameHistory
    settings,      \* GamingSystem.settings
    djGames,       \* DJGameSystem.activeGames: sessionId -> DJ game
    djHistory,     \* DJGameSystem.gameHistory
    djSettings,    \* DJGameSystem.settings
    timers,        \* bag of the pending setTimeout callbacks
    now,           \* Date.now(), in ticks
    nextId,        \* the number of game objects created so far, plus one
    fired,         \* the timer whose callback ran in the last step, if one did
    crashed        \* an exception has left a callback: the process is gone

vars == <<activeGames, gameHistory, settings, djGames, djHistory, djSettings,
          timers, now, nextId, fired, crashed>>

----------------------------------------------------------------------------
(* Bounds of the model *)

\* game objects created in one run
MaxGames == 2
\* the last tick of the clock
MaxTime == 3
\* the longest duration a caller passes to a start call, in ticks
MaxDuration == 1
\* Math.random() returns k / RandDen for some k in 0 .. RandDen-1
RandDen == 2
\* records kept in a history list
MaxHistory == 3
MaxComments == 2
MaxRaceComments == 15
MaxRequests == 6
MaxSecondRequests == 1

Sessions == {"s1"}
\* a session for which no game is ever started
IdleSession == "s0"
Users == {"alice", "bob"}
Durations == 0 .. MaxDuration
Rand == 0 .. (RandDen - 1)

----------------------------------------------------------------------------
(* null / undefined, Maps, strings *)

None == << >>
Some(x) == << x >>
IsNone(o) == Len(o) = 0
IsSome(o) == Len(o) > 0

EmptyMap == << >>
Has(m, k) == k \in DOMAIN m
Put(m, k, v) == [x \in (DOMAIN m) \cup {k} |-> IF x = k THEN v ELSE m[x]]
Delete(m, k) == [x \in (DOMAIN m) \ {k} |-> m[x]]
Size(m) == Cardinality(DOMAIN m)

LowerCase == <<"a","b","c","d","e","f","g","h","i","j","k","l","m",
               "n","o","p","q","r","s","t","u","v","w","x","y","z">>
UpperCase == <<"A","B","C","D","E","F","G","H","I","J","K","L","M",
               "N","O","P","Q","R","S","T","U","V","W","X","Y","Z">>
Digits == {"0","1","2","3","4","5","6","7","8","9"}

Range(f) == {f[i] : i \in DOMAIN f}

\* String.prototype.toUpperCase, one character
toUpperChar(c) ==
    IF c \in Range(LowerCase)
    THEN UpperCase[CHOOSE i \in DOMAIN LowerCase : LowerCase[i] = c]
    ELSE c

\* String.prototype.toUpperCase
toUpperCase(str) == [i \in DOMAIN str |-> toUpperChar(str[i])]

\* the regular expression class \w
IsWordChar(c) == c \in Range(LowerCase) \cup Range(UpperCase) \cup Digits \cup {"_"}

\* the regular expression assertion \b before the character at index p
\* (p = Len(str) + 1 is the end of the string)
WordBoundary(str, p) ==
    LET before == p > 1 /\ IsWordChar(str[p - 1])
        after  == p <= Len(str) /\ IsWordChar(str[p])
    IN  before # after

\* str has sub at index p
OccursAt(str, sub, p) ==
    /\ p >= 1
    /\ p + Len(sub) - 1 <= Len(str)
    /\ \A k \in 1 .. Len(sub) : str[p + k - 1] = sub[k]

\* String.prototype.includes
includes(str, sub) == \E p \in 1 .. (Len(str) + 1) : OccursAt(str, sub, p)

----------------------------------------------------------------------------
(* The two systems as values: `this` of a method *)

DJS == [activeGames |-> djGames, gameHistory |-> djHistory, settings |-> djSettings]

GS == [activeGames |-> activeGames, gameHistory |-> gameHistory,
       settings |-> settings, djGameSystem |-> DJS]

\* what a method hands back: the system after it (`this` of the method), its
\* return value, the setTimeout callbacks it armed, and whether it threw
Result(this, ret, armed) ==
    [this |-> this, ret |-> ret, armed |-> armed, threw |-> FALSE]

\* a method left by an exception: the assignments made before it stay
Thrown(this) == [this |-> this, ret |-> None, armed |-> {}, threw |-> TRUE]

\* a record of a history list, {...game, total...}: of the copied fields the
\* methods of the two systems read type, sessionId and startTime; the others
\* are left out, and id stands for the game object the record was copied from
historyRecord(game) ==
    [id |-> game.id, type |-> game.type, sessionId |-> game.sessionId,
     startTime |-> game.startTime]

\* a setTimeout callback: kind names the method it calls with sessionId, owner
\* is the id of the game object that armed it
Timer(kind, sessionId, delay, owner) ==
    [kind |-> kind, sessionId |-> sessionId, due |-> now + delay, owner |-> owner]

----------------------------------------------------------------------------
(* GamingSystem: settings *)

DefaultLuckyWheelDuration == 2
DefaultKeyword == <<"G","A","M","E">>

\* a value JavaScript's || treats as false: 0 for a duration, "" for a keyword
IsFalsy(key, v) == IF key = "keyword" THEN Len(v) = 0 ELSE v = 0

getSetting(this, category, key, defaultValue) ==
    IF IsNone(this.settings) \/ category \notin DOMAIN this.settings[1]
    THEN defaultValue
    ELSE LET v == this.settings[1][category][key]
         IN  IF IsFalsy(key, v) THEN defaultValue ELSE v

----------------------------------------------------------------------------
(* GamingSystem: lucky wheel *)

startLuckyWheel(this, sessionId, duration, id) ==
    LET gameDuration == IF duration # 0 THEN duration
                        ELSE getSetting(this, "luckyWheel", "duration",
                                        DefaultLuckyWheelDuration)
        keyword == getSetting(this, "luckyWheel", "keyword", DefaultKeyword)
        gameData == [type |-> "luckywheel", id |-> id, sessionId |-> sessionId,
                     status |-> "collecting", entries |-> << >>,
                     startTime |-> now, duration |-> gameDuration,
                     endTime |-> now + gameDuration, winner |-> None,
                     keyword |-> keyword, actualEndTime |-> None]
    IN  Result([this EXCEPT !.activeGames = Put(@, sessionId, gameData)],
               Some(gameData),
               {Timer("endLuckyWheel", sessionId, gameDuration, id)})

\* new RegExp(`\\b${escaped keyword}\\b`).test(message)
wordBoundaryRegexTest(keywordUpper, messageUpper) ==
    \E p \in 1 .. (Len(messageUpper) + 1) :
        /\ OccursAt(messageUpper, keywordUpper, p)
        /\ WordBoundary(messageUpper, p)
        /\ WordBoundary(messageUpper, p + Len(keywordUpper))

\* addLuckyWheelEntry without the look for an entry of the same user
addLuckyWheelEntryNoFind(this, sessionId, username, message) ==
    IF \/ ~Has(this.activeGames, sessionId)
       \/ this.activeGames[sessionId].type # "luckywheel"
       \/ this.activeGames[sessionId].status # "collecting"
    THEN Result(this, FALSE, {})
    ELSE
    LET game == this.activeGames[sessionId]
        gameKeyword == IF Len(game.keyword) = 0 THEN DefaultKeyword ELSE game.keyword
        entry == [username |-> username, message |-> message]
    IN  IF wordBoundaryRegexTest(toUpperCase(gameKeyword), toUpperCase(message))
        THEN Result([this EXCEPT !.activeGames[sessionId].entries = Append(@, entry)],
                    TRUE, {})
        ELSE Result(this, FALSE, {})

addLuckyWheelEntry(this, sessionId, username, message) ==
    IF \/ ~Has(this.activeGames, sessionId)
       \/ this.activeGames[sessionId].type # "luckywheel"
       \/ this.activeGames[sessionId].status # "collecting"
    THEN Result(this, FALSE, {})
    ELSE
    LET game == this.activeGames[sessionId]
        gameKeyword == IF Len(game.keyword) = 0 THEN DefaultKeyword ELSE game.keyword
        messageUpper == toUpperCase(message)
        keywordUpper == toUpperCase(gameKeyword)
        existingEntry == \E i \in DOMAIN game.entries :
                             game.entries[i].username = username
        entry == [username |-> username, message |-> message]
    IN  IF wordBoundaryRegexTest(keywordUpper, messageUpper) /\ ~existingEntry
        THEN Result([this EXCEPT !.activeGames[sessionId].entries = Append(@, entry)],
                    TRUE, {})
        ELSE Result(this, FALSE, {})

\* Math.floor(Math.random() * n), Math.random() being rnd / RandDen
randomIndex(rnd, n) == (rnd * n) \div RandDen

\* the value endLuckyWheel returns; gameData is absent from the no-entries result
WheelResult(winner, entries, gameData) ==
    [winner |-> winner, entries |-> entries, totalEntries |-> Len(entries),
     gameData |-> gameData]

\* spinLuckyWheel without "game.winner = winner"
spinLuckyWheelKeepsNoWinner(this, sessionId, rnd) ==
    LET game == this.activeGames[sessionId]
        ended == [game EXCEPT !.status = "ended", !.actualEndTime = Some(now)]
    IN  IF Len(game.entries) = 0
        THEN Result([this EXCEPT !.activeGames[sessionId] = ended],
                    Some(WheelResult(None, << >>, None)), {})
        ELSE
        LET winner == game.entries[randomIndex(rnd, Len(game.entries)) + 1]
        IN  Result([this EXCEPT !.activeGames[sessionId] = ended,
                                !.gameHistory = Append(@, historyRecord(ended))],
                   Some(WheelResult(Some(winner), ended.entries, Some(ended))), {})

\* endLuckyWheel from "game.status = 'ended'" on: the wheel is spun
spinLuckyWheel(this, sessionId, rnd) ==
    LET game == this.activeGames[sessionId]
        ended == [game EXCEPT !.status = "ended", !.actualEndTime = Some(now)]
    IN  IF Len(game.entries) = 0
        THEN Result([this EXCEPT !.activeGames[sessionId] = ended],
                    Some(WheelResult(None, << >>, None)), {})
        ELSE
        LET winner == game.entries[randomIndex(rnd, Len(game.entries)) + 1]
            won == [ended EXCEPT !.winner = Some(winner)]
            record == historyRecord(won)
        IN  Result([this EXCEPT !.activeGames[sessionId] = won,
                                !.gameHistory = Append(@, record)],
                   Some(WheelResult(Some(winner), won.entries, Some(won))), {})

\* endLuckyWheel with the "Prevent double spinning" return taken out
endLuckyWheelRespins(this, sessionId, rnd) ==
    IF \/ ~Has(this.activeGames, sessionId)
       \/ this.activeGames[sessionId].type # "luckywheel"
    THEN Result(this, None, {})
    ELSE spinLuckyWheel(this, sessionId, rnd)

endLuckyWheel(this, sessionId, rnd) ==
    IF \/ ~Has(this.activeGames, sessionId)
       \/ this.activeGames[sessionId].type # "luckywheel"
    THEN Result(this, None, {})
    ELSE
    LET game == this.activeGames[sessionId]
    IN  IF game.status = "ended" \/ IsSome(game.winner)
        THEN Result(this, Some(WheelResult(game.winner, game.entries, Some(game))), {})
        ELSE spinLuckyWheel(this, sessionId, rnd)

----------------------------------------------------------------------------
(* GamingSystem: poll *)

\* the options with one id for all of them
formattedOptionsOneId(keywords) ==
    [index \in DOMAIN keywords |->
        [id |-> 1, keyword |-> keywords[index], votes |-> << >>]]

\* POST /api/gaming/poll/start: the options array as the route formats it
formattedOptions(keywords) ==
    [index \in DOMAIN keywords |->
        [id |-> index, keyword |-> keywords[index], votes |-> << >>]]

startPoll(this, sessionId, options, duration, id) ==
    LET gameData == [type |-> "poll", id |-> id, sessionId |-> sessionId,
                     status |-> "active", options |-> options,
                     startTime |-> now, duration |-> duration,
                     endTime |-> now + duration, votes |-> EmptyMap,
                     results |-> None, winner |-> None, actualEndTime |-> None]
    IN  Result([this EXCEPT !.activeGames = Put(@, sessionId, gameData)],
               Some(gameData),
               {Timer("endPoll", sessionId, duration, id)})

Min(S) == CHOOSE x \in S : \A y \in S : x <= y

\* the last option that matches in place of the first
findLastOption(options, messageUpper) ==
    LET matching == {i \in DOMAIN options :
                        includes(messageUpper, toUpperCase(options[i].keyword))}
    IN  IF matching = {} THEN 0 ELSE CHOOSE i \in matching : \A j \in matching : j <= i

\* game.options.find(option => messageUpper.includes(option.keyword.toUpperCase())):
\* the index of the option found, 0 when none is
findOption(options, messageUpper) ==
    LET matching == {i \in DOMAIN options :
                        includes(messageUpper, toUpperCase(options[i].keyword))}
    IN  IF matching = {} THEN 0 ELSE Min(matching)

addPollVote(this, sessionId, username, message) ==
    IF \/ ~Has(this.activeGames, sessionId)
       \/ this.activeGames[sessionId].type # "poll"
       \/ this.activeGames[sessionId].status # "active"
    THEN Result(this, FALSE, {})
    ELSE
    LET game == this.activeGames[sessionId]
        messageUpper == toUpperCase(message)
        matchedOption == findOption(game.options, messageUpper)
    IN  IF matchedOption # 0 /\ ~Has(game.votes, username)
        THEN Result([this EXCEPT
                        !.activeGames[sessionId].votes =
                            Put(@, username, game.options[matchedOption].id),
                        !.activeGames[sessionId].options[matchedOption].votes =
                            Append(@, [username |-> username, timestamp |-> now])],
                    TRUE, {})
        ELSE Result(this, FALSE, {})

\* Math.floor in place of Math.round
percentageFloor(count, total) == (100 * count) \div total

\* Math.round(count / total * 100), total > 0
percentage(count, total) == (200 * count + total) \div (2 * total)

\* the reduce with >= in the callback: the last of the options with most votes
RECURSIVE reduceWinnerLast(_, _, _)
reduceWinnerLast(results, prev, i) ==
    IF i > Len(results) THEN prev
    ELSE reduceWinnerLast(results,
                          IF results[i].voteCount >= prev.voteCount
                          THEN results[i] ELSE prev,
                          i + 1)

\* Array.prototype.reduce without an initial value, from index i on, with the
\* callback (prev, current) => (current.voteCount > prev.voteCount) ? current : prev
RECURSIVE reduceWinner(_, _, _)
reduceWinner(results, prev, i) ==
    IF i > Len(results) THEN prev
    ELSE reduceWinner(results,
                      IF results[i].voteCount > prev.voteCount THEN results[i] ELSE prev,
                      i + 1)

endPoll(this, sessionId) ==
    IF \/ ~Has(this.activeGames, sessionId)
       \/ this.activeGames[sessionId].type # "poll"
    THEN Result(this, None, {})
    ELSE
    LET game == this.activeGames[sessionId]
        ended == [game EXCEPT !.status = "ended", !.actualEndTime = Some(now)]
        results == [i \in DOMAIN game.options |->
                       [id |-> game.options[i].id,
                        keyword |-> game.options[i].keyword,
                        votes |-> game.options[i].votes,
                        voteCount |-> Len(game.options[i].votes),
                        percentage |-> IF Size(game.votes) > 0
                                       THEN percentage(Len(game.options[i].votes),
                                                       Size(game.votes))
                                       ELSE 0]]
    IN  IF Len(results) = 0
        THEN \* reduce of an empty array with no initial value: TypeError
             Thrown([this EXCEPT !.activeGames[sessionId] = ended])
        ELSE
        LET winner == reduceWinner(results, results[1], 2)
            done == [ended EXCEPT !.results = Some(results), !.winner = Some(winner)]
            record == historyRecord(done)
        IN  Result([this EXCEPT !.activeGames[sessionId] = done,
                                !.gameHistory = Append(@, record)],
                   Some([results |-> results, winner |-> winner,
                         totalVotes |-> Size(game.votes), gameData |-> done]),
                   {})

----------------------------------------------------------------------------
(* GamingSystem: race *)

RaceDistance == 100
\* Math.random() * 5 + 3 lies in [3, 8): the whole units a comment moves
MinMove == 3
MaxMove == 7
MoveDistances == {MinMove, MaxMove}

startRace(this, sessionId, duration, id) ==
    LET gameData == [type |-> "race", id |-> id, sessionId |-> sessionId,
                     status |-> "active", participants |-> << >>,
                     startTime |-> now, duration |-> duration,
                     endTime |-> now + duration, winner |-> None,
                     raceDistance |-> RaceDistance, actualEndTime |-> None]
    IN  Result([this EXCEPT !.activeGames = Put(@, sessionId, gameData)],
               Some(gameData),
               {Timer("endRace", sessionId, duration, id)})

\* the sort with the participants of equal position in reverse order
sortByPositionDescTiesLast(seq) ==
    LET rank(i) == Cardinality({j \in DOMAIN seq : seq[j].position > seq[i].position})
                   + Cardinality({j \in DOMAIN seq :
                                     j > i /\ seq[j].position = seq[i].position})
                   + 1
    IN  [r \in DOMAIN seq |-> seq[CHOOSE i \in DOMAIN seq : rank(i) = r]]

\* b.position - a.position as a sort comparator: Array.prototype.sort is stable,
\* so an element goes after those with a greater position and after the earlier
\* ones with an equal position
sortByPositionDesc(seq) ==
    LET rank(i) == Cardinality({j \in DOMAIN seq : seq[j].position > seq[i].position})
                   + Cardinality({j \in DOMAIN seq :
                                     j < i /\ seq[j].position = seq[i].position})
                   + 1
    IN  [r \in DOMAIN seq |-> seq[CHOOSE i \in DOMAIN seq : rank(i) = r]]

endRace(this, sessionId) ==
    IF \/ ~Has(this.activeGames, sessionId)
       \/ this.activeGames[sessionId].type # "race"
    THEN Result(this, None, {})
    ELSE
    LET game == this.activeGames[sessionId]
        participants == sortByPositionDesc(game.participants)
        winner == IF IsNone(game.winner) /\ Len(participants) > 0
                  THEN Some(participants[1]) ELSE game.winner
        done == [game EXCEPT !.status = "ended", !.actualEndTime = Some(now),
                             !.winner = winner]
        record == historyRecord(done)
    IN  Result([this EXCEPT !.activeGames[sessionId] = done,
                            !.gameHistory = Append(@, record)],
               Some([winner |-> winner, participants |-> participants,
                     totalParticipants |-> Len(participants), gameData |-> done]),
               {})

\* the move without Math.min
advanceUncapped(position, moveDistance) == position + moveDistance

\* Math.min(100, participant.position + moveDistance)
advance(position, moveDistance) ==
    IF position + moveDistance > 100 THEN 100 ELSE position + moveDistance

\* the test with > in place of >=
hasWonBeyond(participant, game) == participant.position > 100 /\ IsNone(game.winner)

\* participant.position >= 100 && !game.winner
hasWon(participant, game) == participant.position >= 100 /\ IsNone(game.winner)

\* the index of username in the participants Map, 0 when it is not a key
participantIndex(participants, username) ==
    IF \E i \in DOMAIN participants : participants[i].username = username
    THEN CHOOSE i \in DOMAIN participants : participants[i].username = username
    ELSE 0

addRaceParticipant(this, sessionId, username, message, moveDistance) ==
    IF \/ ~Has(this.activeGames, sessionId)
       \/ this.activeGames[sessionId].type # "race"
       \/ this.activeGames[sessionId].status # "active"
    THEN Result(this, FALSE, {})
    ELSE
    LET game == this.activeGames[sessionId]
        found == participantIndex(game.participants, username)
        joined == IF found = 0
                  THEN Append(game.participants,
                              [username |-> username, position |-> 0,
                               lastComment |-> now, commentCount |-> 1])
                  ELSE game.participants
        k == IF found = 0 THEN Len(joined) ELSE found
        old == joined[k]
        participant == [old EXCEPT
                           !.position = advance(old.position, moveDistance),
                           !.lastComment = now,
                           !.commentCount = @ + 1]
        moved == [game EXCEPT !.participants = [joined EXCEPT ![k] = participant]]
    IN  IF hasWon(participant, game)
        THEN LET won == [moved EXCEPT !.winner = Some(participant)]
                 r == endRace([this EXCEPT !.activeGames[sessionId] = won], sessionId)
             IN  Result(r.this, TRUE, {})
        ELSE Result([this EXCEPT !.activeGames[sessionId] = moved], TRUE, {})

----------------------------------------------------------------------------
(* DJGameSystem *)

\* requestDuration and votingDuration default to 30 s; the break between
\* rounds is 5000 ms
DefaultRequestDuration == 6
DefaultVotingDuration == 6
CoolDown == 1
\* the retention window of both cleanup methods, 60000 ms
Retention == 12

djGetSetting(this, key, defaultValue) ==
    IF IsNone(this.settings) \/ "djGame" \notin DOMAIN this.settings[1]
    THEN defaultValue
    ELSE LET v == this.settings[1]["djGame"][key]
         IN  IF v = 0 THEN defaultValue ELSE v

startDJGame(this, sessionId, id) ==
    LET requestDuration == djGetSetting(this, "requestDuration", DefaultRequestDuration)
        gameData == [type |-> "djgame", id |-> id, sessionId |-> sessionId,
                     status |-> "requesting", phase |-> "song-request",
                     startTime |-> now, duration |-> requestDuration,
                     endTime |-> now + requestDuration,
                     songRequests |-> << >>, topSongs |-> << >>, votes |-> << >>,
                     currentRound |-> 1, winner |-> None, playlist |-> << >>,
                     autoLoop |-> TRUE, participants |-> {},
                     totalRequests |-> 0, uniqueUsers |-> 0,
                     phaseStartTime |-> now,
                     liveStats |-> [topRequesters |-> << >>, popularSongs |-> << >>],
                     actualEndTime |-> None]
    IN  Result([this EXCEPT !.activeGames = Put(@, sessionId, gameData)],
               Some(gameData),
               {Timer("advanceToVotingPhase", sessionId, requestDuration, id)})

Max(S) == CHOOSE x \in S : \A y \in S : x >= y

\* String.prototype.trim
trim(str) ==
    LET kept == {i \in DOMAIN str : str[i] # " "}
    IN  IF kept = {} THEN << >> ELSE SubSeq(str, Min(kept), Max(kept))

startsWith(str, prefix) == OccursAt(str, prefix, 1)

\* String.prototype.substring(n)
substring(str, n) == SubSeq(str, n + 1, Len(str))

toLowerChar(c) ==
    IF c \in Range(UpperCase)
    THEN LowerCase[CHOOSE i \in DOMAIN UpperCase : UpperCase[i] = c]
    ELSE c

toLowerCase(str) == [i \in DOMAIN str |-> toLowerChar(str[i])]

prefixes == << <<"P","L","A","Y",":">>, <<"S","O","N","G",":">>,
               <<"R","E","Q","U","E","S","T",":">>, <<"M","U","S","I","C",":">> >>

\* the loop over prefixes: the first one the name starts with is cut off
stripPrefix(songName) ==
    LET hits == {i \in DOMAIN prefixes : startsWith(toUpperCase(songName), prefixes[i])}
    IN  IF hits = {} THEN songName
        ELSE trim(substring(songName, Len(prefixes[Min(hits)])))

\* songName.toLowerCase().replace(/\b\w/g, l => l.toUpperCase())
titleCase(songName) ==
    LET lower == toLowerCase(songName)
    IN  [i \in DOMAIN lower |->
            IF IsWordChar(lower[i]) /\ WordBoundary(lower, i)
            THEN toUpperChar(lower[i]) ELSE lower[i]]

\* the index of the entry of an insertion-ordered Map with this key, 0 when
\* the Map has no such key
keyIndex(map, key) ==
    IF \E i \in DOMAIN map : map[i].key = key
    THEN CHOOSE i \in DOMAIN map : map[i].key = key
    ELSE 0

\* the sort by count with the entries of equal count in reverse order
sortByCountDescTiesLast(seq) ==
    LET rank(i) == Cardinality({j \in DOMAIN seq : seq[j].count > seq[i].count})
                   + Cardinality({j \in DOMAIN seq :
                                     j > i /\ seq[j].count = seq[i].count})
                   + 1
    IN  [r \in DOMAIN seq |-> seq[CHOOSE i \in DOMAIN seq : rank(i) = r]]

\* (a, b) => b.count - a.count as a sort comparator; the sort is stable
sortByCountDesc(seq) ==
    LET rank(i) == Cardinality({j \in DOMAIN seq : seq[j].count > seq[i].count})
                   + Cardinality({j \in DOMAIN seq :
                                     j < i /\ seq[j].count = seq[i].count})
                   + 1
    IN  [r \in DOMAIN seq |-> seq[CHOOSE i \in DOMAIN seq : rank(i) = r]]

\* Array.prototype.slice(0, n)
slice(seq, n) == SubSeq(seq, 1, IF Len(seq) < n THEN Len(seq) ELSE n)

\* the users of all songs, in the order a Map keyed by them first sees them
RECURSIVE firstSeen(_, _)
firstSeen(users, seen) ==
    IF Len(users) = 0 THEN seen
    ELSE firstSeen(Tail(users),
                   IF \E i \in DOMAIN seen : seen[i] = Head(users)
                   THEN seen ELSE Append(seen, Head(users)))

RECURSIVE allUsers(_)
allUsers(songRequests) ==
    IF Len(songRequests) = 0 THEN << >>
    ELSE Head(songRequests).users \o allUsers(Tail(songRequests))

getTopRequesters(game) ==
    LET order == firstSeen(allUsers(game.songRequests), << >>)
        userRequestCounts ==
            [i \in DOMAIN order |->
                [username |-> order[i],
                 count |-> Cardinality({j \in DOMAIN game.songRequests :
                              \E k \in DOMAIN game.songRequests[j].users :
                                  game.songRequests[j].users[k] = order[i]})]]
    IN  slice(sortByCountDesc(userRequestCounts), 5)

getPopularSongs(game) ==
    LET sorted == slice(sortByCountDesc(game.songRequests), 5)
    IN  [i \in DOMAIN sorted |-> [songName |-> sorted[i].key, count |-> sorted[i].count]]

\* requestsPerSecond, a quotient of the wall clock, is left out
updateLiveStats(game) ==
    [game EXCEPT !.liveStats = [topRequesters |-> getTopRequesters(game),
                                popularSongs |-> getPopularSongs(game)]]

\* addSongRequest without the songData.users.has(username) check
addSongRequestCountsRepeats(this, sessionId, username, message) ==
    IF \/ ~Has(this.activeGames, sessionId)
       \/ this.activeGames[sessionId].type # "djgame"
       \/ this.activeGames[sessionId].phase # "song-request"
    THEN Result(this, FALSE, {})
    ELSE
    LET game == this.activeGames[sessionId]
        stripped == stripPrefix(trim(message))
    IN  IF Len(stripped) < 2 THEN Result(this, FALSE, {})
        ELSE
        LET songName == titleCase(stripped)
            found == keyIndex(game.songRequests, songName)
            requests == IF found = 0
                        THEN Append(game.songRequests,
                                    [key |-> songName, count |-> 0, users |-> << >>])
                        ELSE game.songRequests
            k == IF found = 0 THEN Len(requests) ELSE found
            songData == requests[k]
            counted == [requests EXCEPT
                           ![k] = [songData EXCEPT
                                      !.count = @ + 1,
                                      !.users = IF \E i \in DOMAIN @ : @[i] = username
                                                THEN @ ELSE Append(@, username)]]
            tracked == [game EXCEPT
                           !.songRequests = counted,
                           !.participants = @ \cup {username},
                           !.totalRequests = @ + 1,
                           !.uniqueUsers = Cardinality(game.participants \cup {username})]
        IN  Result([this EXCEPT !.activeGames[sessionId] = updateLiveStats(tracked)],
                   TRUE, {})

addSongRequest(this, sessionId, username, message) ==
    IF \/ ~Has(this.activeGames, sessionId)
       \/ this.activeGames[sessionId].type # "djgame"
       \/ this.activeGames[sessionId].phase # "song-request"
    THEN Result(this, FALSE, {})
    ELSE
    LET game == this.activeGames[sessionId]
        stripped == stripPrefix(trim(message))
    IN  IF Len(stripped) < 2 THEN Result(this, FALSE, {})
        ELSE
        LET songName == titleCase(stripped)
            found == keyIndex(game.songRequests, songName)
            requests == IF found = 0
                        THEN Append(game.songRequests,
                                    [key |-> songName, count |-> 0, users |-> << >>])
                        ELSE game.songRequests
            k == IF found = 0 THEN Len(requests) ELSE found
            songData == requests[k]
        IN  IF \E i \in DOMAIN songData.users : songData.users[i] = username
            THEN Result([this EXCEPT !.activeGames[sessionId].songRequests = requests],
                        TRUE, {})
            ELSE
            LET counted == [requests EXCEPT
                               ![k] = [songData EXCEPT
                                          !.count = @ + 1,
                                          !.users = Append(@, username)]]
                tracked == [game EXCEPT
                               !.songRequests = counted,
                               !.participants = @ \cup {username},
                               !.totalRequests = @ + 1,
                               !.uniqueUsers = Cardinality(game.participants \cup {username})]
            IN  Result([this EXCEPT !.activeGames[sessionId] = updateLiveStats(tracked)],
                       TRUE, {})

\* endDJGame without game.phase = 'ended'
endDJGameKeepsPhase(this, sessionId) ==
    IF \/ ~Has(this.activeGames, sessionId)
       \/ this.activeGames[sessionId].type # "djgame"
    THEN Result(this, None, {})
    ELSE
    LET game == this.activeGames[sessionId]
        done == [game EXCEPT !.status = "ended", !.actualEndTime = Some(now)]
        record == historyRecord(done)
    IN  Result([this EXCEPT !.activeGames[sessionId] = done,
                            !.gameHistory = Append(@, record)],
               Some([totalRounds |-> game.currentRound, playlist |-> game.playlist,
                     gameData |-> done]),
               {})

endDJGame(this, sessionId) ==
    IF \/ ~Has(this.activeGames, sessionId)
       \/ this.activeGames[sessionId].type # "djgame"
    THEN Result(this, None, {})
    ELSE
    LET game == this.activeGames[sessionId]
        done == [game EXCEPT !.status = "ended", !.phase = "ended",
                             !.actualEndTime = Some(now)]
        record == historyRecord(done)
    IN  Result([this EXCEPT !.activeGames[sessionId] = done,
                            !.gameHistory = Append(@, record)],
               Some([totalRounds |-> game.currentRound, playlist |-> game.playlist,
                     gameData |-> done]),
               {})

Letters == <<"A", "B", "C", "D">>

\* advanceToVotingPhase without the check for an empty sortedSongs
advanceToVotingPhaseHoldsEmptyVote(this, sessionId) ==
    IF \/ ~Has(this.activeGames, sessionId)
       \/ this.activeGames[sessionId].type # "djgame"
    THEN Result(this, FALSE, {})
    ELSE
    LET game == this.activeGames[sessionId]
        sortedSongs == slice(sortByCountDesc(game.songRequests), 4)
        topSongs == [index \in DOMAIN sortedSongs |->
                        [letter |-> Letters[index],
                         name |-> sortedSongs[index].key,
                         requestCount |-> sortedSongs[index].count,
                         voters |-> sortedSongs[index].users]]
        duration == djGetSetting(this, "votingDuration", DefaultVotingDuration)
        voting == [game EXCEPT !.topSongs = topSongs, !.phase = "voting",
                               !.status = "voting", !.duration = duration,
                               !.endTime = now + duration]
    IN  Result([this EXCEPT !.activeGames[sessionId] = voting], TRUE,
               {Timer("endVotingPhase", sessionId, duration, game.id)})

advanceToVotingPhase(this, sessionId) ==
    IF \/ ~Has(this.activeGames, sessionId)
       \/ this.activeGames[sessionId].type # "djgame"
    THEN Result(this, FALSE, {})
    ELSE
    LET game == this.activeGames[sessionId]
        sortedSongs == slice(sortByCountDesc(game.songRequests), 4)
    IN  IF Len(sortedSongs) = 0
        THEN Result(endDJGame(this, sessionId).this, FALSE, {})
        ELSE
        LET topSongs == [index \in DOMAIN sortedSongs |->
                            [letter |-> Letters[index],
                             name |-> sortedSongs[index].key,
                             requestCount |-> sortedSongs[index].count,
                             voters |-> sortedSongs[index].users]]
            duration == djGetSetting(this, "votingDuration", DefaultVotingDuration)
            voting == [game EXCEPT !.topSongs = topSongs, !.phase = "voting",
                                   !.status = "voting", !.duration = duration,
                                   !.endTime = now + duration]
        IN  Result([this EXCEPT !.activeGames[sessionId] = voting], TRUE,
                   {Timer("endVotingPhase", sessionId, duration, game.id)})

\* vote.charCodeAt(0) - 65 for a one-letter vote among A..D, plus one
letterIndex(vote) == CHOOSE i \in DOMAIN Letters : Letters[i] = vote[1]

\* addVote without the look for the song of the label
addVoteAnyLabel(this, sessionId, username, message) ==
    IF \/ ~Has(this.activeGames, sessionId)
       \/ this.activeGames[sessionId].type # "djgame"
       \/ this.activeGames[sessionId].phase # "voting"
    THEN Result(this, FALSE, {})
    ELSE
    LET game == this.activeGames[sessionId]
        vote == toUpperCase(trim(message))
    IN  IF ~(Len(vote) = 1 /\ vote[1] \in Range(Letters)) THEN Result(this, FALSE, {})
        ELSE
        LET found == keyIndex(game.votes, vote[1])
            votes == IF found = 0
                     THEN Append(game.votes,
                                 [key |-> vote[1], count |-> 0, users |-> << >>])
                     ELSE game.votes
            k == IF found = 0 THEN Len(votes) ELSE found
            voteData == votes[k]
        IN  IF \E i \in DOMAIN voteData.users : voteData.users[i] = username
            THEN Result([this EXCEPT !.activeGames[sessionId].votes = votes],
                        FALSE, {})
            ELSE Result([this EXCEPT !.activeGames[sessionId].votes =
                            [votes EXCEPT ![k] = [voteData EXCEPT
                                                     !.count = @ + 1,
                                                     !.users = Append(@, username)]]],
                        TRUE, {})

addVote(this, sessionId, username, message) ==
    IF \/ ~Has(this.activeGames, sessionId)
       \/ this.activeGames[sessionId].type # "djgame"
       \/ this.activeGames[sessionId].phase # "voting"
    THEN Result(this, FALSE, {})
    ELSE
    LET game == this.activeGames[sessionId]
        vote == toUpperCase(trim(message))
    IN  IF ~(Len(vote) = 1 /\ vote[1] \in Range(Letters)) THEN Result(this, FALSE, {})
        ELSE
        LET songIndex == letterIndex(vote)
        IN  IF songIndex > Len(game.topSongs) THEN Result(this, FALSE, {})
            ELSE
            LET found == keyIndex(game.votes, vote[1])
                votes == IF found = 0
                         THEN Append(game.votes,
                                     [key |-> vote[1], count |-> 0, users |-> << >>])
                         ELSE game.votes
                k == IF found = 0 THEN Len(votes) ELSE found
                voteData == votes[k]
            IN  IF \E i \in DOMAIN voteData.users : voteData.users[i] = username
                THEN Result([this EXCEPT !.activeGames[sessionId].votes = votes],
                            FALSE, {})
                ELSE Result([this EXCEPT !.activeGames[sessionId].votes =
                                [votes EXCEPT ![k] = [voteData EXCEPT
                                                         !.count = @ + 1,
                                                         !.users = Append(@, username)]]],
                            TRUE, {})

\* the loop of endVotingPhase without the comparison with maxVotes: the index
\* of the first entry with a vote
firstVotedIndex(votes) ==
    LET voted == {i \in DOMAIN votes : votes[i].count > 0}
    IN  IF voted = {} THEN 0 ELSE Min(voted)

\* the loop over game.votes.entries(): the index of the first entry whose count
\* is greater than every count before it and not less than any after it; 0
\* when no count is above 0
maxVotesIndex(votes) ==
    LET best == {i \in DOMAIN votes :
                    /\ votes[i].count > 0
                    /\ \A j \in DOMAIN votes : j < i => votes[j].count < votes[i].count
                    /\ \A j \in DOMAIN votes : j > i => votes[j].count <= votes[i].count}
    IN  IF best = {} THEN 0 ELSE Min(best)

\* the false endVotingPhase returns when it has no winner is None here
endVotingPhase(this, sessionId) ==
    IF \/ ~Has(this.activeGames, sessionId)
       \/ this.activeGames[sessionId].type # "djgame"
    THEN Result(this, None, {})
    ELSE
    LET game == this.activeGames[sessionId]
        w == maxVotesIndex(game.votes)
    IN  IF w = 0
        THEN Result(endDJGame(this, sessionId).this, None, {})
        ELSE
        LET winner == game.votes[w].key
            maxVotes == game.votes[w].count
            songIndex == CHOOSE i \in DOMAIN Letters : Letters[i] = winner
        IN  IF songIndex > Len(game.topSongs)
            THEN \* winningSong is undefined: reading winningSong.name is a TypeError
                 Thrown(this)
            ELSE
            LET winningSong == game.topSongs[songIndex]
                gameWinner == [letter |-> winner, song |-> winningSong.name,
                               votes |-> maxVotes,
                               requestCount |-> winningSong.requestCount]
                listed == [game EXCEPT
                              !.winner = Some(gameWinner),
                              !.playlist = Append(@, [song |-> winningSong.name,
                                                      winner |-> gameWinner,
                                                      round |-> game.currentRound,
                                                      timestamp |-> now])]
                that == [this EXCEPT !.activeGames[sessionId] = listed]
            IN  IF game.autoLoop
                THEN Result(that, Some(gameWinner),
                            {Timer("startNextRound", sessionId, CoolDown, game.id)})
                ELSE Result(endDJGame(that, sessionId).this, Some(gameWinner), {})

\* startNextRound without game.votes.clear()
startNextRoundKeepsVotes(this, sessionId) ==
    IF \/ ~Has(this.activeGames, sessionId)
       \/ this.activeGames[sessionId].type # "djgame"
    THEN Result(this, FALSE, {})
    ELSE
    LET game == this.activeGames[sessionId]
        duration == djGetSetting(this, "requestDuration", DefaultRequestDuration)
        reset == [game EXCEPT !.currentRound = @ + 1, !.phase = "song-request",
                              !.status = "requesting", !.songRequests = << >>,
                              !.topSongs = << >>,
                              !.winner = None, !.duration = duration,
                              !.endTime = now + duration]
    IN  Result([this EXCEPT !.activeGames[sessionId] = reset], TRUE,
               {Timer("advanceToVotingPhase", sessionId, duration, game.id)})

\* startNextRound without game.currentRound++
startNextRoundSameRound(this, sessionId) ==
    IF \/ ~Has(this.activeGames, sessionId)
       \/ this.activeGames[sessionId].type # "djgame"
    THEN Result(this, FALSE, {})
    ELSE
    LET game == this.activeGames[sessionId]
        duration == djGetSetting(this, "requestDuration", DefaultRequestDuration)
        reset == [game EXCEPT !.phase = "song-request",
                              !.status = "requesting", !.songRequests = << >>,
                              !.topSongs = << >>, !.votes = << >>,
                              !.winner = None, !.duration = duration,
                              !.endTime = now + duration]
    IN  Result([this EXCEPT !.activeGames[sessionId] = reset], TRUE,
               {Timer("advanceToVotingPhase", sessionId, duration, game.id)})

startNextRound(this, sessionId) ==
    IF \/ ~Has(this.activeGames, sessionId)
       \/ this.activeGames[sessionId].type # "djgame"
    THEN Result(this, FALSE, {})
    ELSE
    LET game == this.activeGames[sessionId]
        duration == djGetSetting(this, "requestDuration", DefaultRequestDuration)
        reset == [game EXCEPT !.currentRound = @ + 1, !.phase = "song-request",
                              !.status = "requesting", !.songRequests = << >>,
                              !.topSongs = << >>, !.votes = << >>,
                              !.winner = None, !.duration = duration,
                              !.endTime = now + duration]
    IN  Result([this EXCEPT !.activeGames[sessionId] = reset], TRUE,
               {Timer("advanceToVotingPhase", sessionId, duration, game.id)})

\* the object getDJGameStatus returns for a game; requestsPerSecond, a
\* quotient of the wall clock, is left out
djStatus(game) ==
    [status |-> game.status, phase |-> game.phase,
     currentRound |-> game.currentRound,
     timeRemaining |-> Max({0, game.endTime - now}),
     songRequests |-> [i \in DOMAIN game.songRequests |->
                          [song |-> game.songRequests[i].key,
                           count |-> game.songRequests[i].count,
                           users |-> game.songRequests[i].users]],
     topSongs |-> game.topSongs,
     votes |-> [i \in DOMAIN game.votes |->
                   [letter |-> game.votes[i].key, count |-> game.votes[i].count,
                    users |-> game.votes[i].users]],
     winner |-> game.winner, playlist |-> game.playlist,
     participants |-> game.participants, totalRequests |-> game.totalRequests,
     uniqueUsers |-> game.uniqueUsers, phaseStartTime |-> game.phaseStartTime,
     liveStats |-> game.liveStats,
     topRequesters |-> getTopRequesters(game),
     popularSongs |-> getPopularSongs(game)]

\* getDJGameStatus keeping the time remaining in the game
getDJGameStatusStoresTimeRemaining(this, sessionId) ==
    IF \/ ~Has(this.activeGames, sessionId)
       \/ this.activeGames[sessionId].type # "djgame"
    THEN Result(this, None, {})
    ELSE LET game == this.activeGames[sessionId]
         IN  Result([this EXCEPT !.activeGames[sessionId].duration =
                                     Max({0, game.endTime - now})],
                    Some(djStatus(game)), {})

getDJGameStatus(this, sessionId) ==
    IF \/ ~Has(this.activeGames, sessionId)
       \/ this.activeGames[sessionId].type # "djgame"
    THEN Result(this, None, {})
    ELSE Result(this, Some(djStatus(this.activeGames[sessionId])), {})

djCleanup(this) ==
    LET removed == {sessionId \in DOMAIN this.activeGames :
                       /\ this.activeGames[sessionId].type = "djgame"
                       /\ \/ this.activeGames[sessionId].status = "ended"
                          \/ now > this.activeGames[sessionId].endTime + Retention}
    IN  Result([this EXCEPT !.activeGames =
                    [sessionId \in (DOMAIN this.activeGames) \ removed |->
                        this.activeGames[sessionId]]],
               None, {})

----------------------------------------------------------------------------
(* GamingSystem: stop, cleanup and the DJ delegates *)

\* the 'djgame' case delegates to the DJ system held by this one
\* getGameStatus: game.entries.map is a TypeError for a game without entries,
\* a poll or a race; the profile picture counts are left out
getGameStatus(this, sessionId) ==
    IF ~Has(this.activeGames, sessionId)
    THEN Result(this, [active |-> FALSE, type |-> None, status |-> None], {})
    ELSE
    LET game == this.activeGames[sessionId]
    IN  IF "entries" \notin DOMAIN game
        THEN Thrown(this)
        ELSE Result(this,
                    [active |-> TRUE, type |-> Some(game.type),
                     status |-> Some(game.status), entries |-> game.entries,
                     entriesCount |-> Len(game.entries),
                     timeRemaining |-> Max({0, game.endTime - now}),
                     winner |-> game.winner],
                    {})

\* getActiveGames: the status of every session of the registry; the first
\* getGameStatus that throws ends it
getActiveGames(this) ==
    IF \E sessionId \in DOMAIN this.activeGames : getGameStatus(this, sessionId).threw
    THEN Thrown(this)
    ELSE Result(this,
                [sessionId \in DOMAIN this.activeGames |->
                    getGameStatus(this, sessionId).ret],
                {})

\* the limit parameter's default
DefaultLimit == 10

\* history.filter(game => game.sessionId === sessionId): a new array
filterBySession(history, sessionId) ==
    SelectSeq(history, LAMBDA game : game.sessionId = sessionId)

\* sort((a, b) => new Date(b.startTime) - new Date(a.startTime)): the sort is
\* stable, so a record goes after the later started and after the earlier
\* ones of the array started at the same time
sortByStartTimeDesc(seq) ==
    LET rank(i) == Cardinality({j \in DOMAIN seq : seq[j].startTime > seq[i].startTime})
                   + Cardinality({j \in DOMAIN seq :
                                     j < i /\ seq[j].startTime = seq[i].startTime})
                   + 1
    IN  [r \in DOMAIN seq |-> seq[CHOOSE i \in DOMAIN seq : rank(i) = r]]

\* getGameHistory: Array.prototype.sort sorts the array it is called on, which
\* without a sessionId is this.gameHistory itself and with one is the array
\* filter made
getGameHistory(this, sessionId, limit) ==
    IF IsNone(sessionId)
    THEN LET sorted == sortByStartTimeDesc(this.gameHistory)
         IN  Result([this EXCEPT !.gameHistory = sorted], slice(sorted, limit), {})
    ELSE LET history == filterBySession(this.gameHistory, sessionId[1])
         IN  Result(this, slice(sortByStartTimeDesc(history), limit), {})

\* getDJGameHistory: the filter by type always makes a new array
getDJGameHistory(this, sessionId, limit) ==
    LET djgames == SelectSeq(this.gameHistory, LAMBDA game : game.type = "djgame")
        history == IF IsNone(sessionId) THEN djgames
                   ELSE filterBySession(djgames, sessionId[1])
    IN  Result(this, slice(sortByStartTimeDesc(history), limit), {})

\* GamingSystem.getDJGameStatus hands the call to the DJ system
gsGetDJGameStatus(this, sessionId) ==
    LET r == getDJGameStatus(this.djGameSystem, sessionId)
    IN  Result([this EXCEPT !.djGameSystem = r.this], r.ret, r.armed)

\* stopGame answering a session without a game with a success value
stopGameOfNothingSucceeds(this, sessionId, rnd) ==
    IF ~Has(this.activeGames, sessionId)
    THEN Result(this, Some(TRUE), {})
    ELSE
    LET game == this.activeGames[sessionId]
    IN  CASE game.type = "luckywheel" ->
                LET r == endLuckyWheel(this, sessionId, rnd)
                IN  Result(r.this, Some(r.ret), {})
          [] game.type = "poll" -> endPoll(this, sessionId)
          [] game.type = "race" -> endRace(this, sessionId)
          [] game.type = "djgame" ->
                LET r == endDJGame(this.djGameSystem, sessionId)
                IN  Result([this EXCEPT !.djGameSystem = r.this], r.ret, {})
          [] OTHER -> Result(this, None, {})

stopGame(this, sessionId, rnd) ==
    IF ~Has(this.activeGames, sessionId)
    THEN Result(this, None, {})
    ELSE
    LET game == this.activeGames[sessionId]
    IN  CASE game.type = "luckywheel" ->
                \* endLuckyWheel is async: what comes back is a Promise, which is
                \* never falsy
                LET r == endLuckyWheel(this, sessionId, rnd)
                IN  Result(r.this, Some(r.ret), {})
          [] game.type = "poll" -> endPoll(this, sessionId)
          [] game.type = "race" -> endRace(this, sessionId)
          [] game.type = "djgame" ->
                LET r == endDJGame(this.djGameSystem, sessionId)
                IN  Result([this EXCEPT !.djGameSystem = r.this], r.ret, {})
          [] OTHER -> Result(this, None, {})

\* GamingSystem.startDJGame and endDJGame hand the call to the DJ system
gsStartDJGame(this, sessionId, id) ==
    LET r == startDJGame(this.djGameSystem, sessionId, id)
    IN  Result([this EXCEPT !.djGameSystem = r.this], r.ret, r.armed)

gsEndDJGame(this, sessionId) ==
    LET r == endDJGame(this.djGameSystem, sessionId)
    IN  Result([this EXCEPT !.djGameSystem = r.this], r.ret, {})

cleanup(this) ==
    LET removed == {sessionId \in DOMAIN this.activeGames :
                       \/ this.activeGames[sessionId].status = "ended"
                       \/ now > this.activeGames[sessionId].endTime + Retention}
    IN  Result([this EXCEPT !.activeGames =
                    [sessionId \in (DOMAIN this.activeGames) \ removed |->
                        this.activeGames[sessionId]]],
               None, {})

----------------------------------------------------------------------------
(* The inputs of the model *)

\* chat messages sent while a lucky wheel runs
WheelMessages == { <<"i"," ","p","l","a","y"," ","G","A","M","E"," ","n","o","w">>,
                   <<"G","A","M","E"," ","G","A","M","E">>,
                   <<"g","a","m","e","r">> }

\* keyword lists a poll is started with, and chat messages sent while it runs
PollKeywords == { << >>, <<<<"A">>, <<"B">>>>, <<<<"b">>, <<"a","b">>>> }
PollMessages == { <<"A">>, <<"b">>, <<"a","b">>, <<"x">> }

\* chat messages sent while a DJ game runs: song requests and votes
RequestMessages == { <<"p","l","a","y",":"," ","s","o","n","g"," ","a">>,
                     <<"S","o","n","g"," ","A">>,
                     <<"s","o","n","g"," ","b">> }
VoteMessages == { <<"a">>, <<" ","B">>, <<"E">> }

RaceMessages == { <<"g","o">> }

\* the viewers who take part in a DJ game
Requesters == {"alice"}

\* requests of five songs, one more than a vote has labels
SongMessages == { <<"s","1">>, <<"s","2">>, <<"s","3">>, <<"s","4">>, <<"s","5">> }

\* what db.getGameSettings() resolves to
StoredSettings ==
    { None,
      Some([luckyWheel |-> [duration |-> 1, keyword |-> <<"g","o">>],
            djGame |-> [requestDuration |-> 1, votingDuration |-> 1]]),
      Some([luckyWheel |-> [duration |-> 0, keyword |-> << >>]]) }

----------------------------------------------------------------------------
(* The state after construction, and the steps *)

Init ==
    /\ activeGames = EmptyMap
    /\ gameHistory = << >>
    /\ settings = None
    /\ djGames = EmptyMap
    /\ djHistory = << >>
    /\ djSettings = None
    /\ timers = EmptyBag
    /\ now = 0
    /\ nextId = 1
    /\ fired = None
    /\ crashed = FALSE

\* the systems after a call of a GamingSystem method
SetGS(this) ==
    /\ activeGames' = this.activeGames
    /\ gameHistory' = this.gameHistory
    /\ settings' = this.settings
    /\ djGames' = this.djGameSystem.activeGames
    /\ djHistory' = this.djGameSystem.gameHistory
    /\ djSettings' = this.djGameSystem.settings

\* the result of a DJGameSystem method as a result on the whole
Lift(r) == [r EXCEPT !.this = [GS EXCEPT !.djGameSystem = r.this]]

\* a call with result r, made from outside (timer = None) or by the callback
\* of a timer.  An exception that leaves a callback is caught by nobody and
\* ends the process; one that leaves a call from a route is answered with 500.
Call(r, timer) ==
    /\ ~crashed
    /\ SetGS(r.this)
    /\ timers' = (IF IsSome(timer) THEN timers (-) SetToBag({timer[1]}) ELSE timers)
                 (+) SetToBag(r.armed)
    /\ fired' = timer
    /\ crashed' = (IsSome(timer) /\ r.threw)

Start(r) ==
    /\ nextId <= MaxGames
    /\ Call(r, None)
    /\ nextId' = nextId + 1
    /\ UNCHANGED now

StartLuckyWheel(sessionId, duration) ==
    Start(startLuckyWheel(GS, sessionId, duration, nextId))

StartPoll(sessionId, keywords, duration) ==
    Start(startPoll(GS, sessionId, formattedOptions(keywords), duration, nextId))

StartRace(sessionId, duration) ==
    Start(startRace(GS, sessionId, duration, nextId))

StartDJGame(sessionId) ==
    Start(gsStartDJGame(GS, sessionId, nextId))

AddLuckyWheelEntry(sessionId, username, message) ==
    /\ Call(addLuckyWheelEntry(GS, sessionId, username, message), None)
    /\ UNCHANGED <<now, nextId>>

AddPollVote(sessionId, username, message) ==
    /\ Call(addPollVote(GS, sessionId, username, message), None)
    /\ UNCHANGED <<now, nextId>>

\* a viewer comments at most MaxComments times in a race
AddRaceParticipant(sessionId, username, message) ==
    /\ Has(activeGames, sessionId) /\ activeGames[sessionId].type = "race" =>
          \A i \in DOMAIN activeGames[sessionId].participants :
             activeGames[sessionId].participants[i].username = username =>
                activeGames[sessionId].participants[i].commentCount <= MaxComments
    /\ \E moveDistance \in MoveDistances :
          Call(addRaceParticipant(GS, sessionId, username, message, moveDistance), None)
    /\ UNCHANGED <<now, nextId>>

\* the comments the participants of a race have made
RECURSIVE raceComments(_)
raceComments(participants) ==
    IF Len(participants) = 0 THEN 0
    ELSE (Head(participants).commentCount - 1) + raceComments(Tail(participants))

\* a chat message while a race runs, the race taking at most MaxRaceComments
\* comments in all, each of which moves by the most a comment can: a race
\* reaches its distance in the fewest comments
RaceComment(sessionId, username, message) ==
    /\ Has(activeGames, sessionId) /\ activeGames[sessionId].type = "race" =>
          raceComments(activeGames[sessionId].participants) < MaxRaceComments
    /\ \E moveDistance \in {MaxMove} :
          Call(addRaceParticipant(GS, sessionId, username, message, moveDistance), None)
    /\ UNCHANGED <<now, nextId>>

AddSongRequest(sessionId, username, message) ==
    /\ Call(Lift(addSongRequest(DJS, sessionId, username, message)), None)
    /\ UNCHANGED <<now, nextId>>

AddVote(sessionId, username, message) ==
    /\ Call(Lift(addVote(DJS, sessionId, username, message)), None)
    /\ UNCHANGED <<now, nextId>>

\* an end call from outside; the history lists are kept within MaxHistory
EndLuckyWheel(sessionId) ==
    /\ Len(gameHistory) < MaxHistory
    /\ \E rnd \in Rand : Call(endLuckyWheel(GS, sessionId, rnd), None)
    /\ UNCHANGED <<now, nextId>>

EndPoll(sessionId) ==
    /\ Len(gameHistory) < MaxHistory
    /\ Call(endPoll(GS, sessionId), None)
    /\ UNCHANGED <<now, nextId>>

EndRace(sessionId) ==
    /\ Len(gameHistory) < MaxHistory
    /\ Call(endRace(GS, sessionId), None)
    /\ UNCHANGED <<now, nextId>>

EndDJGame(sessionId) ==
    /\ Len(djHistory) < MaxHistory
    /\ Call(gsEndDJGame(GS, sessionId), None)
    /\ UNCHANGED <<now, nextId>>

StopGame(sessionId) ==
    /\ Len(gameHistory) < MaxHistory
    /\ \E rnd \in Rand : Call(stopGame(GS, sessionId, rnd), None)
    /\ UNCHANGED <<now, nextId>>

\* GET /api/gaming/status/:sessionId; the route catches what the call throws
GetGameStatus(sessionId) ==
    /\ Call(getGameStatus(GS, sessionId), None)
    /\ UNCHANGED <<now, nextId>>

\* GET /api/gaming/history and GET /api/gaming/history/:sessionId
GetGameHistory(sessionId, limit) ==
    /\ Call(getGameHistory(GS, sessionId, limit), None)
    /\ UNCHANGED <<now, nextId>>

\* GET /api/gaming/active
GetActiveGames ==
    /\ Call(getActiveGames(GS), None)
    /\ UNCHANGED <<now, nextId>>

\* GET /api/gaming/djgame/status/:sessionId
GetDJGameStatus(sessionId) ==
    /\ Call(gsGetDJGameStatus(GS, sessionId), None)
    /\ UNCHANGED <<now, nextId>>

Cleanup ==
    /\ Call(cleanup(GS), None)
    /\ UNCHANGED <<now, nextId>>

\* what the callback of a timer does
callback(timer, rnd) ==
    CASE timer.kind = "endLuckyWheel" -> endLuckyWheel(GS, timer.sessionId, rnd)
      [] timer.kind = "endPoll" -> endPoll(GS, timer.sessionId)
      [] timer.kind = "endRace" -> endRace(GS, timer.sessionId)
      [] timer.kind = "advanceToVotingPhase" ->
            Lift(advanceToVotingPhase(DJS, timer.sessionId))
      [] timer.kind = "endVotingPhase" -> Lift(endVotingPhase(DJS, timer.sessionId))
      [] timer.kind = "startNextRound" -> Lift(startNextRound(DJS, timer.sessionId))

\* a due setTimeout callback runs
FireTimer(timer) ==
    /\ BagIn(timer, timers)
    /\ timer.due <= now
    /\ \E rnd \in Rand : Call(callback(timer, rnd), Some(timer))
    /\ UNCHANGED <<now, nextId>>

\* five seconds pass; the callbacks that are due run first
Tick ==
    /\ ~crashed
    /\ now < MaxTime
    /\ \A timer \in BagToSet(timers) : timer.due > now
    /\ now' = now + 1
    /\ fired' = None
    /\ UNCHANGED <<activeGames, gameHistory, settings, djGames, djHistory,
                   djSettings, timers, nextId, crashed>>

\* GamingSystem.loadSettings, at startup and from refreshSettings
LoadSettings(stored) ==
    /\ ~crashed
    /\ settings' = stored
    /\ fired' = None
    /\ UNCHANGED <<activeGames, gameHistory, djGames, djHistory, djSettings,
                   timers, now, nextId, crashed>>

\* DJGameSystem.loadSettings, which only the constructor calls: it resolves
\* once, at some time after construction
LoadDJSettings(stored) ==
    /\ ~crashed
    /\ IsNone(djSettings)
    /\ djSettings' = stored
    /\ fired' = None
    /\ UNCHANGED <<activeGames, gameHistory, settings, djGames, djHistory,
                   timers, now, nextId, crashed>>

TimerStep == \E timer \in BagToSet(timers) : FireTimer(timer)

----------------------------------------------------------------------------
(* Lucky wheels alone *)

NextWheel ==
    \/ \E sessionId \in Sessions, duration \in Durations :
          StartLuckyWheel(sessionId, duration)
    \/ \E sessionId \in Sessions, username \in Users, message \in WheelMessages :
          AddLuckyWheelEntry(sessionId, username, message)
    \/ \E sessionId \in Sessions : EndLuckyWheel(sessionId)
    \/ \E sessionId \in Sessions : StopGame(sessionId)
    \/ Cleanup
    \/ TimerStep
    \/ Tick

SpecWheel == Init /\ [][NextWheel]_vars

\* the event loop runs a callback that is due, and time passes
SpecWheelTimers == SpecWheel /\ WF_vars(TimerStep) /\ WF_vars(Tick)

----------------------------------------------------------------------------
(* Polls alone *)

NextPoll ==
    \/ \E sessionId \in Sessions, keywords \in PollKeywords, duration \in Durations :
          StartPoll(sessionId, keywords, duration)
    \/ \E sessionId \in Sessions, username \in Users, message \in PollMessages :
          AddPollVote(sessionId, username, message)
    \/ \E sessionId \in Sessions : EndPoll(sessionId)
    \/ \E sessionId \in Sessions : StopGame(sessionId)
    \/ Cleanup
    \/ TimerStep
    \/ Tick

SpecPoll == Init /\ [][NextPoll]_vars

----------------------------------------------------------------------------
(* DJ games alone *)

NextDJ ==
    \/ \E stored \in StoredSettings : LoadDJSettings(stored)
    \/ \E sessionId \in Sessions : StartDJGame(sessionId)
    \/ \E sessionId \in Sessions, username \in Requesters, message \in RequestMessages :
          AddSongRequest(sessionId, username, message)
    \/ \E sessionId \in Sessions, username \in Requesters, message \in VoteMessages :
          AddVote(sessionId, username, message)
    \/ \E sessionId \in Sessions : EndDJGame(sessionId)
    \/ TimerStep
    \/ Tick

SpecDJ == Init /\ [][NextDJ]_vars

----------------------------------------------------------------------------
(* Races alone *)

NextRace ==
    \/ \E sessionId \in Sessions, duration \in Durations :
          StartRace(sessionId, duration)
    \/ \E sessionId \in Sessions, username \in Users, message \in RaceMessages :
          RaceComment(sessionId, username, message)
    \/ \E sessionId \in Sessions : EndRace(sessionId)
    \/ \E sessionId \in Sessions : StopGame(sessionId)
    \/ Cleanup
    \/ TimerStep
    \/ Tick

SpecRace == Init /\ [][NextRace]_vars

----------------------------------------------------------------------------
(* The request phase of one DJ game, with two viewers and five songs *)

\* the songs a viewer is among the requesters of
requestedBy(songRequests, username) ==
    {i \in DOMAIN songRequests :
        \E k \in DOMAIN songRequests[i].users : songRequests[i].users[k] = username}

\* a song request, a round taking at most MaxRequests requests, of which at
\* most MaxSecondRequests are not alice's
SongRequest(sessionId, username, message) ==
    /\ Has(djGames, sessionId) =>
          /\ djGames[sessionId].totalRequests < MaxRequests
          /\ username # "alice" =>
                Cardinality(requestedBy(djGames[sessionId].songRequests, username))
                   < MaxSecondRequests
    /\ AddSongRequest(sessionId, username, message)

NextRequests ==
    \/ \E stored \in StoredSettings :
          /\ IsSome(stored) /\ "djGame" \in DOMAIN stored[1]
          /\ LoadDJSettings(stored)
    \/ \E sessionId \in Sessions : nextId = 1 /\ StartDJGame(sessionId)
    \/ \E sessionId \in Sessions, username \in Users, message \in SongMessages :
          SongRequest(sessionId, username, message)
    \/ TimerStep
    \/ Tick

SpecRequests == Init /\ [][NextRequests]_vars

----------------------------------------------------------------------------
(* The votes of one DJ game, with two voters *)

NextVotes ==
    \/ \E stored \in StoredSettings :
          /\ IsSome(stored) /\ "djGame" \in DOMAIN stored[1]
          /\ LoadDJSettings(stored)
    \/ \E sessionId \in Sessions : nextId = 1 /\ StartDJGame(sessionId)
    \/ \E sessionId \in Sessions, username \in Requesters, message \in RequestMessages :
          AddSongRequest(sessionId, username, message)
    \/ \E sessionId \in Sessions, username \in Users, message \in VoteMessages :
          AddVote(sessionId, username, message)
    \/ \E sessionId \in Sessions : EndDJGame(sessionId)
    \/ TimerStep
    \/ Tick

SpecVotes == Init /\ [][NextVotes]_vars

\* the event loop runs a callback that is due, and time passes
SpecRounds == SpecVotes /\ WF_vars(TimerStep) /\ WF_vars(Tick)

----------------------------------------------------------------------------
(* All the games of one session, with one viewer *)

Next ==
    \/ \E sessionId \in Sessions : StartLuckyWheel(sessionId, MaxDuration)
    \/ \E sessionId \in Sessions :
          StartPoll(sessionId, <<<<"A">>, <<"B">>>>, MaxDuration)
    \/ \E sessionId \in Sessions : StartRace(sessionId, MaxDuration)
    \/ \E sessionId \in Sessions : StartDJGame(sessionId)
    \/ \E sessionId \in Sessions :
          AddLuckyWheelEntry(sessionId, "alice", <<"G","A","M","E">>)
    \/ \E sessionId \in Sessions : AddPollVote(sessionId, "alice", <<"A">>)
    \/ \E sessionId \in Sessions, message \in RaceMessages :
          AddRaceParticipant(sessionId, "alice", message)
    \/ \E sessionId \in Sessions :
          AddSongRequest(sessionId, "alice", <<"s","o","n","g"," ","b">>)
    \/ \E sessionId \in Sessions : AddVote(sessionId, "alice", <<"a">>)
    \/ \E sessionId \in Sessions : EndLuckyWheel(sessionId)
    \/ \E sessionId \in Sessions : EndPoll(sessionId)
    \/ \E sessionId \in Sessions : EndRace(sessionId)
    \/ \E sessionId \in Sessions : EndDJGame(sessionId)
    \/ \E sessionId \in Sessions : StopGame(sessionId)
    \/ Cleanup
    \/ TimerStep
    \/ Tick

Spec == Init /\ [][Next]_vars

----------------------------------------------------------------------------
(* Lucky wheels and DJ games of one session under the cleanup interval *)

NextCleanup ==
    \/ \E stored \in StoredSettings :
          /\ IsSome(stored) /\ "djGame" \in DOMAIN stored[1]
          /\ LoadDJSettings(stored)
    \/ \E sessionId \in Sessions : StartLuckyWheel(sessionId, MaxDuration)
    \/ \E sessionId \in Sessions : StartDJGame(sessionId)
    \/ \E sessionId \in Sessions :
          AddLuckyWheelEntry(sessionId, "alice", <<"G","A","M","E">>)
    \/ \E sessionId \in Sessions :
          AddSongRequest(sessionId, "alice", <<"s","o","n","g"," ","b">>)
    \/ \E sessionId \in Sessions : EndLuckyWheel(sessionId)
    \/ \E sessionId \in Sessions : EndDJGame(sessionId)
    \/ Cleanup
    \/ TimerStep
    \/ Tick

\* the cleanup interval keeps calling cleanup, the event loop runs a callback
\* that is due, and time passes
SpecCleanup ==
    /\ Init /\ [][NextCleanup]_vars
    /\ WF_vars(Cleanup) /\ WF_vars(TimerStep) /\ WF_vars(Tick)

----------------------------------------------------------------------------
(* Status queries on the lucky wheels, polls and DJ games of one session *)

NextQueries ==
    \/ NextCleanup
    \/ \E sessionId \in Sessions :
          StartPoll(sessionId, <<<<"A">>, <<"B">>>>, MaxDuration)
    \/ \E sessionId \in Sessions : AddPollVote(sessionId, "alice", <<"A">>)
    \/ \E sessionId \in Sessions \cup {IdleSession} : GetGameStatus(sessionId)
    \/ GetActiveGames
    \/ \E sessionId \in Sessions \cup {IdleSession} : GetDJGameStatus(sessionId)

SpecQueries == Init /\ [][NextQueries]_vars

----------------------------------------------------------------------------
(* Properties: deadlines, the ended state and the one game of a session *)

IsDJTimer(timer) ==
    timer.kind \in {"advanceToVotingPhase", "endVotingPhase", "startNextRound"}

\* the registry the callback of a timer looks its session up in
RegistryOf(timer) == IF IsDJTimer(timer) THEN djGames ELSE activeGames

\* the game a timer was set for has been replaced by a later game of the
\* session, whose own deadline has not come yet
Replaced(timer) ==
    /\ Has(RegistryOf(timer), timer.sessionId)
    /\ RegistryOf(timer)[timer.sessionId].id # timer.owner
    /\ RegistryOf(timer)[timer.sessionId].status # "ended"
    /\ now < RegistryOf(timer)[timer.sessionId].endTime

\* C1: when the deadline callback of a game runs after the session has got a
\* new game, the step changes nothing in the new game: the registries are
\* after the step what they were before it.
C1_StaleDeadlineChangesNothing ==
    [][ \A timer \in BagToSet(timers) :
           (fired' = Some(timer) /\ Replaced(timer)) =>
              (activeGames' = activeGames /\ djGames' = djGames) ]_vars

\* what C2 says an ended game keeps
Outcome(game) ==
    [status |-> game.status, winner |-> game.winner,
     phase |-> IF game.type = "djgame" THEN Some(game.phase) ELSE None,
     round |-> IF game.type = "djgame" THEN Some(game.currentRound) ELSE None,
     results |-> IF game.type = "poll" THEN game.results ELSE None,
     topSongs |-> IF game.type = "djgame" THEN game.topSongs ELSE << >>,
     votes |-> IF game.type \in {"djgame", "poll"} THEN Some(game.votes) ELSE None,
     playlist |-> IF game.type = "djgame" THEN game.playlist ELSE << >>]

\* an ended game of the registry is, as long as the registry holds it, what it
\* was when it ended
StaysEnded(games) ==
    \A sessionId \in Sessions :
        ( /\ Has(games, sessionId)
          /\ games[sessionId].status = "ended"
          /\ Has(games', sessionId)
          /\ games'[sessionId].id = games[sessionId].id )
        => Outcome(games'[sessionId]) = Outcome(games[sessionId])

\* C2: once the status of a game is ended, no step (a chat message, an end
\* call, a phase timer) changes its status, phase, round, winner, results,
\* topSongs, votes or playlist.
C2_EndedIsTerminal ==
    [][ StaysEnded(activeGames) /\ StaysEnded(djGames) ]_vars

\* C3: in every reachable state a session has at most one game that is not
\* ended, the DJ games and the other games taken together.
C3_OneActiveGamePerSession ==
    \A sessionId \in Sessions :
        ~ ( /\ Has(activeGames, sessionId)
            /\ activeGames[sessionId].status # "ended"
            /\ Has(djGames, sessionId)
            /\ djGames[sessionId].status # "ended" )

----------------------------------------------------------------------------
(* Properties: ending a game *)

EndedWheel(sessionId) ==
    /\ Has(activeGames, sessionId)
    /\ activeGames[sessionId].type = "luckywheel"
    /\ activeGames[sessionId].status = "ended"

\* an end call on an ended wheel answers with the winner the game holds and
\* changes nothing
WheelEndIsCached(r, sessionId) ==
    /\ ~r.threw
    /\ IsSome(r.ret)
    /\ r.ret[1].winner = activeGames[sessionId].winner
    /\ r.this = GS

\* the first end call answers with the winner it stores in the game
WheelEndReturnsStored(r, sessionId) ==
    /\ IsSome(r.ret)
    /\ r.ret[1].winner = r.this.activeGames[sessionId].winner

\* C4: the first endLuckyWheel call on a wheel returns the winner it stores;
\* every later call on that wheel, by a spin, by stopGame or by the timer,
\* returns that winner and leaves the game as it is; and no step changes the
\* status, the entries or the winner of an ended wheel.
C4_EndLuckyWheelIdempotent ==
    /\ [] \A sessionId \in Sessions, rnd \in Rand :
             /\ ( Has(activeGames, sessionId)
                  /\ activeGames[sessionId].type = "luckywheel" ) =>
                    WheelEndReturnsStored(endLuckyWheel(GS, sessionId, rnd), sessionId)
             /\ EndedWheel(sessionId) =>
                    /\ WheelEndIsCached(endLuckyWheel(GS, sessionId, rnd), sessionId)
                    /\ stopGame(GS, sessionId, rnd).this = GS
    /\ [][ \A sessionId \in Sessions :
              ( /\ EndedWheel(sessionId)
                /\ Has(activeGames', sessionId)
                /\ activeGames'[sessionId].id = activeGames[sessionId].id )
              => activeGames'[sessionId] = activeGames[sessionId] ]_vars

\* an ended wheel with two entries whose own timer has just fired, after the
\* spin that ended it
C4_Witness ==
    \E sessionId \in Sessions :
        /\ EndedWheel(sessionId)
        /\ Len(activeGames[sessionId].entries) = 2
        /\ IsSome(fired)
        /\ fired[1].owner = activeGames[sessionId].id
        /\ activeGames[sessionId].actualEndTime[1] < now

\* an end call that finds the game ended neither throws nor changes the game
SecondEndChangesNothing(r, games, sessionId) ==
    /\ ~r.threw
    /\ r.this.activeGames[sessionId] = games[sessionId]

\* C5: an end call on a game that is ended does not throw and leaves every
\* field of the game as it is, for the lucky wheel, the poll, the race and the
\* DJ game.
C5_SecondEndChangesNothing ==
    \A sessionId \in Sessions :
        /\ ( Has(activeGames, sessionId)
             /\ activeGames[sessionId].status = "ended" ) =>
               /\ \A rnd \in Rand :
                     SecondEndChangesNothing(endLuckyWheel(GS, sessionId, rnd),
                                             activeGames, sessionId)
               /\ SecondEndChangesNothing(endPoll(GS, sessionId), activeGames, sessionId)
               /\ SecondEndChangesNothing(endRace(GS, sessionId), activeGames, sessionId)
        /\ ( Has(djGames, sessionId)
             /\ djGames[sessionId].status = "ended" ) =>
               SecondEndChangesNothing(endDJGame(DJS, sessionId), djGames, sessionId)

\* the number of records the history holds of a game
Records(history, id) ==
    Cardinality({i \in DOMAIN history : history[i].id = id})

\* C6: the history holds exactly one record of every game that has ended, and
\* never two of any game.
C6_OneRecordPerEndedGame ==
    /\ \A sessionId \in Sessions :
          ( Has(activeGames, sessionId)
            /\ activeGames[sessionId].status = "ended" ) =>
              Records(gameHistory, activeGames[sessionId].id) = 1
    /\ \A sessionId \in Sessions :
          ( Has(djGames, sessionId)
            /\ djGames[sessionId].status = "ended" ) =>
              Records(djHistory, djGames[sessionId].id) = 1
    /\ \A id \in 1 .. MaxGames :
          Records(gameHistory, id) <= 1 /\ Records(djHistory, id) <= 1

----------------------------------------------------------------------------
(* Properties: the lucky wheel *)

CollectingWheel(sessionId) ==
    /\ Has(activeGames, sessionId)
    /\ activeGames[sessionId].type = "luckywheel"
    /\ activeGames[sessionId].status = "collecting"

HasEntryOf(entries, username) ==
    \E i \in DOMAIN entries : entries[i].username = username

\* C7: the entries of a lucky wheel never hold two records of one participant;
\* the first message of a participant that holds the keyword is recorded and
\* the call returns true, every later one returns false and leaves the entries
\* as they are.
C7_EntriesUniquePerParticipant ==
    \A sessionId \in Sessions :
        ( Has(activeGames, sessionId) /\ activeGames[sessionId].type = "luckywheel" ) =>
        LET entries == activeGames[sessionId].entries
        IN  /\ \A i, j \in DOMAIN entries :
                  entries[i].username = entries[j].username => i = j
            /\ CollectingWheel(sessionId) =>
                  \A username \in Users, message \in WheelMessages :
                      LET r == addLuckyWheelEntry(GS, sessionId, username, message)
                          matches ==
                              wordBoundaryRegexTest(
                                  toUpperCase(activeGames[sessionId].keyword),
                                  toUpperCase(message))
                      IN  IF HasEntryOf(entries, username) \/ ~matches
                          THEN r.ret = FALSE /\ r.this = GS
                          ELSE /\ r.ret = TRUE
                               /\ r.this.activeGames[sessionId].entries =
                                     Append(entries, [username |-> username,
                                                      message |-> message])

\* a collecting wheel that holds the entries of both viewers
C7_Witness ==
    \E sessionId \in Sessions :
        /\ CollectingWheel(sessionId)
        /\ HasEntryOf(activeGames[sessionId].entries, "alice")
        /\ HasEntryOf(activeGames[sessionId].entries, "bob")

\* C8: the winner of a lucky wheel, when it has one, is one of its entries; an
\* ended wheel has no winner exactly when it has no entries; ending a wheel
\* without entries gives a result without a winner and no exception, and
\* ending a wheel with one entry makes that entry the winner.
C8_WinnerIsAnEntry ==
    \A sessionId \in Sessions :
        ( Has(activeGames, sessionId) /\ activeGames[sessionId].type = "luckywheel" ) =>
        LET game == activeGames[sessionId]
        IN  /\ IsSome(game.winner) =>
                  \E i \in DOMAIN game.entries : game.entries[i] = game.winner[1]
            /\ game.status = "ended" => (IsNone(game.winner) <=> Len(game.entries) = 0)
            /\ game.status = "collecting" =>
                  \A rnd \in Rand :
                      LET r == endLuckyWheel(GS, sessionId, rnd)
                      IN  /\ ~r.threw
                          /\ IsSome(r.ret)
                          /\ r.this.activeGames[sessionId].status = "ended"
                          /\ Len(game.entries) = 0 => IsNone(r.ret[1].winner)
                          /\ Len(game.entries) = 1 =>
                                r.ret[1].winner = Some(game.entries[1])
                          /\ Len(game.entries) > 0 =>
                                \E i \in DOMAIN game.entries :
                                    r.ret[1].winner = Some(game.entries[i])

\* an ended wheel with two entries, the second of which has won
C8_Witness ==
    \E sessionId \in Sessions :
        /\ EndedWheel(sessionId)
        /\ Len(activeGames[sessionId].entries) = 2
        /\ activeGames[sessionId].winner = Some(activeGames[sessionId].entries[2])

----------------------------------------------------------------------------
(* Properties: the poll *)

ActivePoll(sessionId) ==
    /\ Has(activeGames, sessionId)
    /\ activeGames[sessionId].type = "poll"
    /\ activeGames[sessionId].status = "active"

\* the keyword occurs in the message, the case of the letters left aside
ContainsIgnoringCase(message, keyword) ==
    \E p \in 1 .. (Len(message) - Len(keyword) + 1) :
        \A i \in DOMAIN keyword :
            toUpperChar(message[p + i - 1]) = toUpperChar(keyword[i])

\* the places where the vote lists of the options name a participant
VotesOf(options, username) ==
    {<<i, k>> \in (DOMAIN options) \X (1 .. Cardinality(Users)) :
        k \in DOMAIN options[i].votes /\ options[i].votes[k].username = username}

\* C9: a participant of a poll has at most one recorded vote; a message of a
\* participant who has not voted is recorded as a vote for the first option,
\* in the order of the options, whose keyword it contains without regard to
\* case, and the call returns true; a message of a participant who has voted
\* returns false and changes neither the votes map nor a vote list.
C9_OneVoteFirstMatchingOption ==
    \A sessionId \in Sessions :
        ( Has(activeGames, sessionId) /\ activeGames[sessionId].type = "poll" ) =>
        LET game == activeGames[sessionId]
        IN  /\ \A username \in Users : Cardinality(VotesOf(game.options, username)) <= 1
            /\ ActivePoll(sessionId) =>
                  \A username \in Users, message \in PollMessages :
                      LET r == addPollVote(GS, sessionId, username, message)
                          matching == {i \in DOMAIN game.options :
                                          ContainsIgnoringCase(message,
                                                               game.options[i].keyword)}
                      IN  IF Has(game.votes, username) \/ matching = {}
                          THEN r.ret = FALSE /\ r.this = GS
                          ELSE /\ r.ret = TRUE
                               /\ r.this.activeGames[sessionId].votes =
                                     Put(game.votes, username,
                                         game.options[Min(matching)].id)
                               /\ \A i \in DOMAIN game.options :
                                     LET before == game.options[i].votes
                                         after == r.this.activeGames[sessionId]
                                                      .options[i].votes
                                     IN  IF i = Min(matching)
                                         THEN /\ Len(after) = Len(before) + 1
                                              /\ SubSeq(after, 1, Len(before)) = before
                                              /\ after[Len(after)].username = username
                                         ELSE after = before

\* an active poll whose second keyword contains the first, in which both
\* viewers have voted and every vote has gone to the first option
C9_Witness ==
    \E sessionId \in Sessions :
        /\ ActivePoll(sessionId)
        /\ Len(activeGames[sessionId].options) = 2
        /\ ContainsIgnoringCase(activeGames[sessionId].options[2].keyword,
                                activeGames[sessionId].options[1].keyword)
        /\ Size(activeGames[sessionId].votes) = 2
        /\ Len(activeGames[sessionId].options[1].votes) = 2

RECURSIVE SumOfVotes(_)
SumOfVotes(options) ==
    IF Len(options) = 0 THEN 0
    ELSE Len(Head(options).votes) + SumOfVotes(Tail(options))

\* C10: in every state of a poll the lengths of the vote lists of the options
\* add up to the size of the votes map, and the votes map gives for each
\* participant the id of the option, and of no other, whose list names the
\* participant.
C10_VoteListsAgreeWithVotesMap ==
    \A sessionId \in Sessions :
        ( Has(activeGames, sessionId) /\ activeGames[sessionId].type = "poll" ) =>
        LET game == activeGames[sessionId]
        IN  /\ SumOfVotes(game.options) = Size(game.votes)
            /\ \A username \in DOMAIN game.votes :
                  \A i \in DOMAIN game.options :
                      (game.options[i].id = game.votes[username])
                         <=> (\E k \in DOMAIN game.options[i].votes :
                                 game.options[i].votes[k].username = username)

\* an ended poll in which both viewers have voted, for different options
C10_Witness ==
    \E sessionId \in Sessions :
        /\ Has(activeGames, sessionId)
        /\ activeGames[sessionId].type = "poll"
        /\ activeGames[sessionId].status = "ended"
        /\ Size(activeGames[sessionId].votes) = 2
        /\ \A i \in DOMAIN activeGames[sessionId].options :
              Len(activeGames[sessionId].options[i].votes) = 1

\* the first of the options that have the most votes
FirstWithMostVotes(options) ==
    Min({i \in DOMAIN options :
            \A j \in DOMAIN options : Len(options[j].votes) <= Len(options[i].votes)})

\* C11: the winner of a poll that ends is the option with the most votes, the
\* earliest in the options list among those that have the most; when nobody
\* has voted it is the first option.
C11_PollWinnerIsFirstArgMax ==
    \A sessionId \in Sessions :
        ( /\ Has(activeGames, sessionId)
          /\ activeGames[sessionId].type = "poll"
          /\ Len(activeGames[sessionId].options) > 0 ) =>
        LET game == activeGames[sessionId]
            first == FirstWithMostVotes(game.options)
            r == endPoll(GS, sessionId)
        IN  /\ ~r.threw
            /\ r.ret[1].winner.id = game.options[first].id
            /\ r.ret[1].winner.voteCount = Len(game.options[first].votes)
            /\ r.this.activeGames[sessionId].winner = Some(r.ret[1].winner)
            /\ Size(game.votes) = 0 => r.ret[1].winner.id = game.options[1].id
            /\ game.status = "ended" =>
                  /\ IsSome(game.winner)
                  /\ game.winner[1].id = game.options[first].id
                  /\ game.winner[1].voteCount = Len(game.options[first].votes)

\* an ended poll with one vote for each of its two options, won by the first
C11_Witness ==
    \E sessionId \in Sessions :
        /\ Has(activeGames, sessionId)
        /\ activeGames[sessionId].type = "poll"
        /\ activeGames[sessionId].status = "ended"
        /\ Len(activeGames[sessionId].options) = 2
        /\ Len(activeGames[sessionId].options[1].votes) = 1
        /\ Len(activeGames[sessionId].options[2].votes) = 1
        /\ IsSome(activeGames[sessionId].winner)
        /\ activeGames[sessionId].winner[1].id = 1

----------------------------------------------------------------------------
(* Properties: the race *)

IsRace(games, sessionId) ==
    Has(games, sessionId) /\ games[sessionId].type = "race"

ActiveRace(sessionId) ==
    IsRace(activeGames, sessionId) /\ activeGames[sessionId].status = "active"

\* the position of a viewer in a list of participants, 0 for one who has not
\* joined
PositionOf(participants, username) ==
    IF participantIndex(participants, username) = 0 THEN 0
    ELSE participants[participantIndex(participants, username)].position

\* C12: the position of every participant of a race is within 0..100; a
\* comment that is accepted leaves the position of its author at least what it
\* was and the positions of the others what they were; and no step takes a
\* participant of a race back.
C12_PositionsBoundedAndMonotone ==
    /\ [] \A sessionId \in Sessions :
             IsRace(activeGames, sessionId) =>
             LET before == activeGames[sessionId].participants
             IN  /\ \A i \in DOMAIN before : before[i].position \in 0 .. 100
                 /\ ActiveRace(sessionId) =>
                       \A username \in Users, moveDistance \in MoveDistances :
                           LET r == addRaceParticipant(GS, sessionId, username, <<"g","o">>,
                                                       moveDistance)
                               after == r.this.activeGames[sessionId].participants
                           IN  /\ r.ret = TRUE
                               /\ PositionOf(after, username) >= PositionOf(before, username)
                               /\ PositionOf(after, username) \in 0 .. 100
                               /\ \A i \in DOMAIN before :
                                     before[i].username # username => after[i] = before[i]
    /\ [][ \A sessionId \in Sessions :
              ( /\ IsRace(activeGames, sessionId)
                /\ IsRace(activeGames', sessionId)
                /\ activeGames'[sessionId].id = activeGames[sessionId].id )
              => \A username \in Users :
                    PositionOf(activeGames'[sessionId].participants, username)
                       >= PositionOf(activeGames[sessionId].participants, username) ]_vars

\* a race in which a viewer stands at 100 after fifteen comments, the last of
\* which has been cut from 105
C12_Witness ==
    \E sessionId \in Sessions :
        /\ IsRace(activeGames, sessionId)
        /\ \E i \in DOMAIN activeGames[sessionId].participants :
              /\ activeGames[sessionId].participants[i].position = 100
              /\ activeGames[sessionId].participants[i].commentCount = 16

\* C13: the comment that takes a participant to 100 ends the race in the same
\* call, with that participant as the winner, whether or not the deadline has
\* come; a race a participant of which stands at 100 is ended; and the winner
\* of an ended race stays the winner when endRace is called again, by the
\* timer or by an end call.
C13_RaceEndsAtHundred ==
    /\ [] \A sessionId \in Sessions :
             IsRace(activeGames, sessionId) =>
             LET game == activeGames[sessionId]
             IN  /\ ActiveRace(sessionId) =>
                       \A username \in Users, moveDistance \in MoveDistances :
                           LET r == addRaceParticipant(GS, sessionId, username, <<"g","o">>,
                                                       moveDistance)
                               after == r.this.activeGames[sessionId]
                           IN  PositionOf(after.participants, username) >= 100 =>
                                  /\ after.status = "ended"
                                  /\ IsSome(after.winner)
                                  /\ after.winner[1].username = username
                                  /\ after.winner[1].position = 100
                 /\ (\E i \in DOMAIN game.participants :
                        game.participants[i].position >= 100) =>
                       /\ game.status = "ended"
                       /\ IsSome(game.winner)
                       /\ game.winner[1].position = 100
                 /\ (game.status = "ended" /\ IsSome(game.winner)) =>
                       /\ endRace(GS, sessionId).this.activeGames[sessionId].winner
                             = game.winner
                       /\ endRace(GS, sessionId).ret[1].winner = game.winner
    /\ [][ \A sessionId \in Sessions :
              ( /\ IsRace(activeGames, sessionId)
                /\ activeGames[sessionId].status = "ended"
                /\ IsRace(activeGames', sessionId)
                /\ activeGames'[sessionId].id = activeGames[sessionId].id )
              => activeGames'[sessionId].winner = activeGames[sessionId].winner ]_vars

\* a race that a participant has won at 100 before its deadline, on which the
\* deadline timer has then run endRace
C13_Witness ==
    \E sessionId \in Sessions :
        /\ IsRace(activeGames, sessionId)
        /\ activeGames[sessionId].status = "ended"
        /\ IsSome(activeGames[sessionId].winner)
        /\ activeGames[sessionId].winner[1].position = 100
        /\ IsSome(fired)
        /\ fired[1].owner = activeGames[sessionId].id
        /\ Records(gameHistory, activeGames[sessionId].id) = 2

\* the one who joined first among the participants with the highest position
FirstInFront(participants) ==
    Min({i \in DOMAIN participants :
            \A j \in DOMAIN participants :
                participants[j].position <= participants[i].position})

\* C14: endRace on a race that nobody has won makes the winner a participant
\* with the highest position, the first to have joined among those with the
\* highest position; a race that ends without participants has no winner.
C14_DeadlineWinnerIsFirstInFront ==
    \A sessionId \in Sessions :
        IsRace(activeGames, sessionId) =>
        LET game == activeGames[sessionId]
            r == endRace(GS, sessionId)
        IN  /\ ActiveRace(sessionId) =>
                  /\ ~r.threw
                  /\ r.this.activeGames[sessionId].status = "ended"
                  /\ r.ret[1].winner = r.this.activeGames[sessionId].winner
                  /\ IF Len(game.participants) = 0
                     THEN IsNone(r.ret[1].winner)
                     ELSE r.ret[1].winner =
                             Some(game.participants[FirstInFront(game.participants)])
            /\ game.status = "ended" =>
                  IF Len(game.participants) = 0
                  THEN IsNone(game.winner)
                  ELSE game.winner =
                          Some(game.participants[FirstInFront(game.participants)])

\* a race ended by its deadline timer with both viewers at the same position
\* short of 100, won by the one who joined first
C14_Witness ==
    \E sessionId \in Sessions :
        /\ IsRace(activeGames, sessionId)
        /\ activeGames[sessionId].status = "ended"
        /\ Len(activeGames[sessionId].participants) = 2
        /\ activeGames[sessionId].participants[1].position
              = activeGames[sessionId].participants[2].position
        /\ activeGames[sessionId].participants[1].position < 100
        /\ activeGames[sessionId].winner = Some(activeGames[sessionId].participants[1])
        /\ fired = Some([kind |-> "endRace", sessionId |-> sessionId,
                         due |-> activeGames[sessionId].endTime,
                         owner |-> activeGames[sessionId].id])
        /\ Records(gameHistory, activeGames[sessionId].id) = 1

----------------------------------------------------------------------------
(* Properties: the DJ game *)

IsDJGame(sessionId) ==
    Has(djGames, sessionId) /\ djGames[sessionId].type = "djgame"

VotingDJGame(sessionId) ==
    IsDJGame(sessionId) /\ djGames[sessionId].phase = "voting"

\* the labels whose voters include the viewer
LabelsVotedBy(votes, username) ==
    {i \in DOMAIN votes :
        \E k \in DOMAIN votes[i].users : votes[i].users[k] = username}

\* C15: in the voting phase of a DJ game no participant is among the voters of
\* two labels, and a vote of a participant who has voted for a label, whichever
\* it is, is rejected and counts for nothing.
C15_OneVotePerParticipantPerRound ==
    \A sessionId \in Sessions :
        VotingDJGame(sessionId) =>
        \A username \in Requesters :
            /\ Cardinality(LabelsVotedBy(djGames[sessionId].votes, username)) <= 1
            /\ LabelsVotedBy(djGames[sessionId].votes, username) # {} =>
                  \A message \in VoteMessages :
                      LET r == addVote(DJS, sessionId, username, message)
                      IN  r.ret = FALSE /\ r.this.activeGames[sessionId].votes
                                              = djGames[sessionId].votes

\* song a goes before song b: it has more requests, or as many and was
\* requested first
GoesBefore(songRequests, a, b) ==
    \/ songRequests[a].count > songRequests[b].count
    \/ songRequests[a].count = songRequests[b].count /\ a < b

\* the place of a song among the songs requested
PlaceOf(songRequests, a) ==
    1 + Cardinality({b \in DOMAIN songRequests : GoesBefore(songRequests, b, a)})

\* topSongs is the first four of the songs requested, by place, with the
\* labels A, B, C, D in that order
IsTopFour(topSongs, songRequests) ==
    /\ Len(topSongs) = (IF Len(songRequests) < 4 THEN Len(songRequests) ELSE 4)
    /\ \A i \in DOMAIN topSongs :
          /\ topSongs[i].letter = Letters[i]
          /\ \E a \in DOMAIN songRequests :
                /\ PlaceOf(songRequests, a) = i
                /\ topSongs[i].name = songRequests[a].key
                /\ topSongs[i].requestCount = songRequests[a].count
    /\ \A i, j \in DOMAIN topSongs :
          i < j => topSongs[i].requestCount >= topSongs[j].requestCount

\* C16: advanceToVotingPhase on a game with requests leaves in topSongs the at
\* most four songs with the most requests, in descending order of their
\* request counts, songs with equal counts in the order of their first
\* request, labelled A, B, C, D in that order; and topSongs is that while the
\* game is in its voting phase.
C16_TopSongsAreTopFour ==
    \A sessionId \in Sessions :
        IsDJGame(sessionId) =>
        LET game == djGames[sessionId]
            r == advanceToVotingPhase(DJS, sessionId)
        IN  /\ (game.phase = "song-request" /\ Len(game.songRequests) > 0) =>
                  /\ r.ret = TRUE
                  /\ r.this.activeGames[sessionId].phase = "voting"
                  /\ IsTopFour(r.this.activeGames[sessionId].topSongs, game.songRequests)
            /\ game.phase = "voting" => IsTopFour(game.topSongs, game.songRequests)

\* a game in its voting phase, five songs having been requested, of which the
\* one requested last has two requests and the label A
C16_Witness ==
    \E sessionId \in Sessions :
        /\ VotingDJGame(sessionId)
        /\ Len(djGames[sessionId].songRequests) = 5
        /\ Len(djGames[sessionId].topSongs) = 4
        /\ djGames[sessionId].songRequests[5].count = 2
        /\ djGames[sessionId].topSongs[1].name = djGames[sessionId].songRequests[5].key
        /\ djGames[sessionId].topSongs[2].name = djGames[sessionId].songRequests[1].key

\* the number of votes of a label in the votes of a round, 0 when the label
\* has no entry
CountOf(votes, letter) ==
    IF keyIndex(votes, letter) = 0 THEN 0 ELSE votes[keyIndex(votes, letter)].count

\* a playlist entry for a round with these topSongs and votes: its song is
\* the song at the label of its winner, and the votes it records are the
\* votes of that label and at least the votes of every label
IsEntryOfRound(entry, game) ==
    /\ entry.round = game.currentRound
    /\ \E i \in DOMAIN game.topSongs :
          /\ game.topSongs[i].letter = entry.winner.letter
          /\ game.topSongs[i].name = entry.song
          /\ entry.winner.song = entry.song
    /\ entry.winner.votes = CountOf(game.votes, entry.winner.letter)
    /\ \A i \in DOMAIN game.votes : entry.winner.votes >= game.votes[i].count

Voteless(game) == \A i \in DOMAIN game.votes : game.votes[i].count = 0

\* the game of the session as the method left it
After(r, sessionId) == r.this.activeGames[sessionId]

\* the method ended the game and armed no deadline
EndsForGood(r, sessionId) ==
    /\ ~r.threw
    /\ After(r, sessionId).status = "ended"
    /\ After(r, sessionId).phase = "ended"
    /\ r.armed = {}

\* what the two phase deadlines do to a game without requests, without votes,
\* or with autoLoop false (startDJGame creates every game with autoLoop true,
\* so that branch of endVotingPhase is taken on the game with the field
\* set to false)
VotelessRoundEnds(sessionId) ==
    LET game == djGames[sessionId]
        advanced == advanceToVotingPhase(DJS, sessionId)
        voted == endVotingPhase(DJS, sessionId)
        once == endVotingPhase([DJS EXCEPT !.activeGames[sessionId].autoLoop = FALSE],
                               sessionId)
    IN  /\ game.phase = "voting" => Len(game.topSongs) > 0
        /\ Len(game.songRequests) = 0 =>
              /\ advanced.ret = FALSE
              /\ EndsForGood(advanced, sessionId)
              /\ After(advanced, sessionId).topSongs = game.topSongs
              /\ After(advanced, sessionId).playlist = game.playlist
        /\ Voteless(game) =>
              /\ IsNone(voted.ret)
              /\ EndsForGood(voted, sessionId)
              /\ IsNone(After(voted, sessionId).winner)
              /\ After(voted, sessionId).playlist = game.playlist
        /\ ~once.threw => EndsForGood(once, sessionId)

\* a phase deadline that runs on a game without requests, or on a game in its
\* voting phase without votes, leaves the game ended and takes itself from
\* the pending deadlines without adding one
VotelessDeadlineArmsNothing(sessionId) ==
    \A timer \in BagToSet(timers) :
        ( /\ fired' = Some(timer)
          /\ IsDJGame(sessionId) /\ timer.sessionId = sessionId
          /\ \/ timer.kind = "advanceToVotingPhase"
                 /\ Len(djGames[sessionId].songRequests) = 0
             \/ timer.kind = "endVotingPhase" /\ Voteless(djGames[sessionId]) ) =>
        /\ djGames'[sessionId].status = "ended"
        /\ djGames'[sessionId].playlist = djGames[sessionId].playlist
        /\ timers' = timers (-) SetToBag({timer})

\* C18: advanceToVotingPhase on a game without requests ends the game without
\* setting topSongs; endVotingPhase on a game without votes ends the game with
\* no winner and no playlist entry; in both cases, and with autoLoop false, no
\* deadline is armed; and no game is in its voting phase with no song to vote
\* for.
C18_VotelessRoundEndsTheGame ==
    /\ [](\A sessionId \in Sessions : IsDJGame(sessionId) => VotelessRoundEnds(sessionId))
    /\ [][\A sessionId \in Sessions : VotelessDeadlineArmsNothing(sessionId)]_vars

\* the deadline of a voting phase has just run on a game without votes: the
\* game is ended in round 1 with no winner, an empty playlist and no deadline
\* pending
C18_Witness ==
    \E sessionId \in Sessions :
        /\ IsDJGame(sessionId)
        /\ IsSome(fired) /\ fired[1].kind = "endVotingPhase"
        /\ djGames[sessionId].status = "ended"
        /\ Len(djGames[sessionId].topSongs) > 0
        /\ Voteless(djGames[sessionId])
        /\ IsNone(djGames[sessionId].winner)
        /\ djGames[sessionId].playlist = << >>
        /\ timers = EmptyBag

\* the deadline of the voting phase of round k has just run and left a winner
RoundFinished(sessionId, k) ==
    /\ IsDJGame(sessionId)
    /\ IsSome(fired) /\ fired[1].kind = "endVotingPhase"
    /\ IsSome(djGames[sessionId].winner)
    /\ djGames[sessionId].currentRound = k

\* the game is in the request phase of round k
Requesting(sessionId, k) ==
    /\ IsDJGame(sessionId)
    /\ djGames[sessionId].status = "requesting"
    /\ djGames[sessionId].phase = "song-request"
    /\ djGames[sessionId].currentRound = k

\* endVotingPhase on a game with a vote arms the cool-down and leaves the game
\* as it is with autoLoop true, and ends the game with autoLoop false
\* (startDJGame creates every game with autoLoop true, so that branch is taken
\* on the game with the field set to false)
LoopsOrEnds(sessionId) ==
    LET game == djGames[sessionId]
        looped == endVotingPhase(DJS, sessionId)
        once == endVotingPhase([DJS EXCEPT !.activeGames[sessionId].autoLoop = FALSE],
                               sessionId)
    IN  ~Voteless(game) =>
           /\ game.autoLoop
           /\ looped.armed = {Timer("startNextRound", sessionId, CoolDown, game.id)}
           /\ After(looped, sessionId).status = game.status
           /\ IsSome(once.ret) /\ once.armed = {}
           /\ After(once, sessionId).status = "ended"
           /\ Len(After(once, sessionId).playlist) = Len(game.playlist) + 1

\* the cool-down timer starts the request phase of the next round
CoolDownStartsNextRound(sessionId) ==
    \A timer \in BagToSet(timers) :
        ( /\ fired' = Some(timer) /\ timer.kind = "startNextRound"
          /\ timer.sessionId = sessionId /\ IsDJGame(sessionId) ) =>
        /\ djGames'[sessionId].status = "requesting"
        /\ djGames'[sessionId].phase = "song-request"
        /\ djGames'[sessionId].currentRound = djGames[sessionId].currentRound + 1

\* C19: whenever the voting phase of round k has finished with a winner (and
\* the clock of the model can still reach the end of the cool-down) the game
\* is eventually in the request phase of round k + 1; the cool-down timer
\* raises the round number by exactly one; and with autoLoop false
\* endVotingPhase ends the game instead.
C19_NextRoundFollowsAWinner ==
    /\ \A sessionId \in Sessions : \A k \in 1..MaxTime :
          (RoundFinished(sessionId, k) /\ now < MaxTime) ~> Requesting(sessionId, k + 1)
    /\ [](\A sessionId \in Sessions : IsDJGame(sessionId) => LoopsOrEnds(sessionId))
    /\ [][\A sessionId \in Sessions : CoolDownStartsNextRound(sessionId)]_vars

\* the cool-down timer has just run: the game is in the request phase of
\* round 2 and its playlist has the song of round 1
C19_Witness ==
    \E sessionId \in Sessions :
        /\ IsSome(fired) /\ fired[1].kind = "startNextRound"
        /\ Requesting(sessionId, 2)
        /\ Len(djGames[sessionId].playlist) = 1
        /\ djGames[sessionId].playlist[1].round = 1

\* the round numbers of successive entries of the playlist increase
RoundsIncrease(playlist) ==
    \A i, j \in DOMAIN playlist : i < j => playlist[i].round < playlist[j].round

\* C20: in every reachable state the playlist of a DJ game has at most one
\* entry for a round, and the round numbers of its successive entries are
\* strictly increasing.
C20_OnePlaylistEntryPerRound ==
    \A sessionId \in Sessions :
        IsDJGame(sessionId) => RoundsIncrease(djGames[sessionId].playlist)

----------------------------------------------------------------------------
(* Properties: stopGame *)

\* the session has one game, in the registry of the gaming system or in that
\* of the DJ system, and the game is not ended
HasOnlyActiveGame(sessionId) ==
    \/ /\ Has(activeGames, sessionId) /\ activeGames[sessionId].status # "ended"
       /\ ~Has(djGames, sessionId)
    \/ /\ Has(djGames, sessionId) /\ djGames[sessionId].status # "ended"
       /\ ~Has(activeGames, sessionId)

\* the status of the session's game after the call
StatusAfterStop(r, sessionId) ==
    IF Has(activeGames, sessionId)
    THEN r.this.activeGames[sessionId].status
    ELSE r.this.djGameSystem.activeGames[sessionId].status

\* C21: in every reachable state, stopGame on a session whose only game is a
\* lucky wheel, a poll, a race or a DJ game that is not ended returns a
\* success value and leaves that game with status ended.
C21_StopEndsAGameOfAnyType ==
    \A sessionId \in Sessions : \A rnd \in Rand :
        HasOnlyActiveGame(sessionId) =>
        LET r == stopGame(GS, sessionId, rnd)
        IN  /\ ~r.threw
            /\ IsSome(r.ret)
            /\ StatusAfterStop(r, sessionId) = "ended"

HasNoGame(sessionId) == ~Has(activeGames, sessionId) /\ ~Has(djGames, sessionId)

\* C22: in every reachable state, stopGame on a session that has no game
\* returns the failure value (false, None here), throws nothing, arms no
\* timer and leaves the games of every session and both histories as they
\* are.
C22_StopOfNothingFails ==
    \A sessionId \in Sessions \cup {IdleSession} : \A rnd \in Rand :
        HasNoGame(sessionId) =>
        LET r == stopGame(GS, sessionId, rnd)
        IN  /\ ~r.threw
            /\ IsNone(r.ret)
            /\ r.armed = {}
            /\ r.this = GS

\* stopGame fails on a session without a game while another session has a
\* game that is not ended, a record in the history and a timer pending
C22_Witness ==
    \E sessionId \in Sessions :
        /\ Has(activeGames, sessionId)
        /\ activeGames[sessionId].status # "ended"
        /\ Len(gameHistory) > 0
        /\ timers # EmptyBag
        /\ HasNoGame(IdleSession)
        /\ IsNone(stopGame(GS, IdleSession, 0).ret)

\* the session's game in the registry of the gaming system is ended, as a
\* stopGame leaves it
HasStoppedGame(sessionId) ==
    Has(activeGames, sessionId) /\ activeGames[sessionId].status = "ended"

\* C23: in every reachable state, stopGame on a session whose game is already
\* ended (a first stopGame ended it and no game was started since) returns
\* the failure value, as it does for a session without a game.
C23_SecondStopFindsNothing ==
    \A sessionId \in Sessions : \A rnd \in Rand :
        HasStoppedGame(sessionId) =>
        LET r == stopGame(GS, sessionId, rnd)
        IN  ~r.threw /\ IsNone(r.ret)

----------------------------------------------------------------------------
(* Properties: starting a game *)

\* C24: in every reachable state no poll with fewer than two options is
\* registered, no endPoll timer is pending for a session without a poll of
\* two options or more, and no end transition has thrown.
C24_PollNeedsTwoOptions ==
    /\ ~crashed
    /\ \A sessionId \in Sessions :
          (Has(activeGames, sessionId) /\ activeGames[sessionId].type = "poll") =>
          Len(activeGames[sessionId].options) >= 2
    /\ \A timer \in BagToSet(timers) :
          timer.kind = "endPoll" =>
          /\ Has(activeGames, timer.sessionId)
          /\ Len(activeGames[timer.sessionId].options) >= 2

\* the session has a game of the gaming system that is not ended
HasActiveGame(sessionId) ==
    Has(activeGames, sessionId) /\ activeGames[sessionId].status # "ended"

\* a start ran the end transition of the game it replaced: the history has a
\* record of that game
EndedThePriorGame(r, sessionId) ==
    /\ ~r.threw
    /\ r.this.activeGames[sessionId].id = nextId
    /\ Records(r.this.gameHistory, activeGames[sessionId].id) >= 1

\* C25: in every reachable state, startLuckyWheel, startPoll and startRace on
\* a session that has a game that is not ended leave a record of that game in
\* the history (its end transition has run) besides registering the new game.
C25_StartEndsThePriorGame ==
    \A sessionId \in Sessions :
        HasActiveGame(sessionId) =>
        /\ EndedThePriorGame(startLuckyWheel(GS, sessionId, MaxDuration, nextId),
                             sessionId)
        /\ EndedThePriorGame(startPoll(GS, sessionId,
                                       formattedOptions(<<<<"A">>, <<"B">>>>),
                                       MaxDuration, nextId), sessionId)
        /\ EndedThePriorGame(startRace(GS, sessionId, MaxDuration, nextId),
                             sessionId)

\* game k is registered, with a deadline the clock of the model reaches
Started(k) ==
    \E sessionId \in Sessions :
        /\ Has(activeGames, sessionId)
        /\ activeGames[sessionId].id = k
        /\ activeGames[sessionId].endTime <= MaxTime

\* the history has a record of game k
Published(k) == Records(gameHistory, k) >= 1

\* C26: with timers that fire when they are due, every game that is started
\* is eventually ended with a record in the history.
C26_StartedGamesArePublished ==
    \A k \in 1..MaxGames : Started(k) ~> Published(k)

----------------------------------------------------------------------------
(* Properties: cleanup *)

\* the game is ended and its end time is older than the retention window
PastRetention(game) ==
    game.status = "ended" /\ now > game.endTime + Retention

\* C27: a step that takes a game out of the registry of the gaming system
\* takes out a game that is ended and whose end time is older than the
\* retention window.
C27_CleanupKeepsRecentGames ==
    [][ \A sessionId \in Sessions :
           (Has(activeGames, sessionId) /\ ~Has(activeGames', sessionId)) =>
           PastRetention(activeGames[sessionId]) ]_vars

\* game k is in one of the two registries
Registered(k) ==
    \E sessionId \in Sessions :
        \/ Has(activeGames, sessionId) /\ activeGames[sessionId].id = k
        \/ Has(djGames, sessionId) /\ djGames[sessionId].id = k

\* game k is in one of the two registries with status ended
RegisteredEnded(k) ==
    \E sessionId \in Sessions :
        \/ /\ Has(activeGames, sessionId) /\ activeGames[sessionId].id = k
           /\ activeGames[sessionId].status = "ended"
        \/ /\ Has(djGames, sessionId) /\ djGames[sessionId].id = k
           /\ djGames[sessionId].status = "ended"

\* C28: with cleanup called again and again, a game of any type that is ended,
\* no timer being pending any more, is eventually no longer in a registry.
C28_EndedGamesAreRemoved ==
    \A k \in 1..MaxGames :
        (RegisteredEnded(k) /\ timers = EmptyBag) ~> ~Registered(k)

----------------------------------------------------------------------------
(* Properties: settings *)

\* the durations the next phases of a DJ game will take: what
\* advanceToVotingPhase and startNextRound read when they run
LaterDurations ==
    [votingDuration |-> djGetSetting(DJS, "votingDuration", DefaultVotingDuration),
     requestDuration |-> djGetSetting(DJS, "requestDuration", DefaultRequestDuration)]

\* the session's DJ game is in flight
InFlight(sessionId) == IsDJGame(sessionId) /\ djGames[sessionId].status # "ended"

\* C29: while a DJ game is in flight, no step changes the voting duration or
\* the request duration its later phases will use.
C29_InFlightGameKeepsItsDurations ==
    [][ \A sessionId \in Sessions :
           ( /\ InFlight(sessionId)
             /\ Has(djGames', sessionId)
             /\ djGames'[sessionId].id = djGames[sessionId].id ) =>
           LaterDurations' = LaterDurations ]_vars

----------------------------------------------------------------------------
(* Properties: events for an ended game *)

\* every message of the model
AnyMessage ==
    WheelMessages \cup PollMessages \cup RaceMessages
        \cup RequestMessages \cup VoteMessages \cup SongMessages

\* the method refused the event and changed nothing
Refused(r, this) == ~r.threw /\ r.ret = FALSE /\ r.this = this /\ r.armed = {}

\* C30: in every reachable state, for a session whose game has status ended,
\* addLuckyWheelEntry, addPollVote, addRaceParticipant, addSongRequest and
\* addVote return false for every viewer and message and change no field of
\* any game.
C30_EndedGameTakesNoEvent ==
    \A sessionId \in Sessions : \A username \in Users : \A message \in AnyMessage :
        /\ HasStoppedGame(sessionId) =>
              /\ Refused(addLuckyWheelEntry(GS, sessionId, username, message), GS)
              /\ Refused(addPollVote(GS, sessionId, username, message), GS)
              /\ \A moveDistance \in MoveDistances :
                    Refused(addRaceParticipant(GS, sessionId, username, message,
                                               moveDistance), GS)
        /\ (IsDJGame(sessionId) /\ djGames[sessionId].status = "ended") =>
              /\ Refused(addSongRequest(DJS, sessionId, username, message), DJS)
              /\ Refused(addVote(DJS, sessionId, username, message), DJS)

\* an ended poll that has a vote and a winner beside an ended DJ game that
\* has a song request
C30_Witness ==
    \E sessionId \in Sessions :
        /\ HasStoppedGame(sessionId)
        /\ activeGames[sessionId].type = "poll"
        /\ Size(activeGames[sessionId].votes) > 0
        /\ IsSome(activeGames[sessionId].winner)
        /\ IsDJGame(sessionId)
        /\ djGames[sessionId].status = "ended"
        /\ Len(djGames[sessionId].songRequests) > 0

----------------------------------------------------------------------------
(* Properties: queries *)

\* the call left the system as it was and armed no timer
ReadOnly(r, this) == r.this = this /\ r.armed = {}

\* C31: in every reachable state getGameStatus, getActiveGames and
\* getDJGameStatus, for a session with or without a game, leave every game,
\* both histories and both registries as they are, whether they return or
\* throw, and a second call answers what the first answered.
C31_QueriesChangeNothing ==
    /\ ReadOnly(getActiveGames(GS), GS)
    /\ \A sessionId \in Sessions \cup {IdleSession} :
          /\ ReadOnly(getGameStatus(GS, sessionId), GS)
          /\ ReadOnly(getDJGameStatus(DJS, sessionId), DJS)
          /\ ReadOnly(gsGetDJGameStatus(GS, sessionId), GS)
          /\ getDJGameStatus(getDJGameStatus(DJS, sessionId).this, sessionId).ret
                = getDJGameStatus(DJS, sessionId).ret

\* a lucky wheel with an entry and a DJ game with a song request, some time
\* after it started, are both in flight and both queries answer
C31_Witness ==
    \E sessionId \in Sessions :
        /\ Has(activeGames, sessionId)
        /\ activeGames[sessionId].type = "luckywheel"
        /\ getGameStatus(GS, sessionId).ret.entriesCount = 1
        /\ InFlight(sessionId)
        /\ IsSome(getDJGameStatus(DJS, sessionId).ret)
        /\ Len(getDJGameStatus(DJS, sessionId).ret[1].songRequests) = 1
        /\ now > djGames[sessionId].startTime

----------------------------------------------------------------------------
(* Properties: phases of a DJ game *)

\* status and phase name the same phase
PhaseAgrees(game) ==
    \/ game.status = "requesting" /\ game.phase = "song-request"
    \/ game.status = "voting" /\ game.phase = "voting"
    \/ game.status = "ended" /\ game.phase = "ended"

\* nothing of a round is in the game
RoundIsEmpty(game) ==
    /\ game.songRequests = << >>
    /\ game.topSongs = << >>
    /\ game.votes = << >>
    /\ IsNone(game.winner)

\* the step starts a round: a game is started, or the cool-down timer runs
StartsRound(sessionId) ==
    /\ Has(djGames', sessionId)
    /\ \/ ~Has(djGames, sessionId)
       \/ djGames'[sessionId].id # djGames[sessionId].id
       \/ /\ IsSome(fired') /\ fired'[1].kind = "startNextRound"
          /\ fired'[1].sessionId = sessionId

----------------------------------------------------------------------------
(* Properties: song requests *)

\* the count of every song is the number of its contributing viewers, who are
\* distinct, and is at least 1
CountsAreContributors(songRequests) ==
    \A i \in DOMAIN songRequests :
        /\ songRequests[i].count = Len(songRequests[i].users)
        /\ songRequests[i].count = Cardinality(Range(songRequests[i].users))
        /\ songRequests[i].count >= 1

\* the songs of a round changed by one request: one song, new or not, has one
\* more contributor, who was not among its contributors, and nothing else
\* changed
OneMoreContributor(before, after) ==
    \E k \in DOMAIN after : \E username \in Users :
        /\ Len(after) = (IF k \in DOMAIN before THEN Len(before) ELSE Len(before) + 1)
        /\ \A i \in DOMAIN before : i # k => after[i] = before[i]
        /\ k \in DOMAIN before => after[k].key = before[k].key
        /\ k \notin requestedBy(before, username)
        /\ after[k].users
             = Append(IF k \in DOMAIN before THEN before[k].users ELSE << >>, username)
        /\ after[k].count = Len(after[k].users)

\* C33: in every reachable state of a DJ game the request count of each song
\* is the size of its set of contributing viewers and is at least 1; and a
\* step changes the songs of a round in its request phase only by giving one
\* song one more contributor, who had not contributed to it, so that a
\* repeated request raises no count.
C33_CountIsContributors ==
    /\ [](\A sessionId \in Sessions :
             IsDJGame(sessionId) => CountsAreContributors(djGames[sessionId].songRequests))
    /\ [][\A sessionId \in Sessions :
             ( /\ IsDJGame(sessionId) /\ Has(djGames', sessionId)
               /\ djGames'[sessionId].id = djGames[sessionId].id
               /\ djGames'[sessionId].phase = "song-request"
               /\ djGames'[sessionId].currentRound = djGames[sessionId].currentRound
               /\ djGames'[sessionId].songRequests # djGames[sessionId].songRequests ) =>
             OneMoreContributor(djGames[sessionId].songRequests,
                                djGames'[sessionId].songRequests)]_vars

\* a game in its request phase in which alice contributed to three songs and
\* one of them has two contributors
C33_Witness ==
    \E sessionId \in Sessions :
        /\ IsDJGame(sessionId)
        /\ djGames[sessionId].phase = "song-request"
        /\ Cardinality(requestedBy(djGames[sessionId].songRequests, "alice")) = 3
        /\ \E i \in DOMAIN djGames[sessionId].songRequests :
              djGames[sessionId].songRequests[i].count = 2

----------------------------------------------------------------------------
(* Properties: live stats *)

RECURSIVE SumOfCounts(_)
SumOfCounts(songRequests) ==
    IF songRequests = << >> THEN 0
    ELSE Head(songRequests).count + SumOfCounts(Tail(songRequests))

\* C34: in every reachable state of a DJ game the live stats the status
\* snapshot reports (liveStats.topRequesters, liveStats.popularSongs and
\* totalRequests) are what the current songRequests give.
C34_LiveStatsFollowTheRequests ==
    \A sessionId \in Sessions :
        IsDJGame(sessionId) =>
        LET game == djGames[sessionId]
            status == getDJGameStatus(DJS, sessionId).ret[1]
        IN  /\ status.liveStats.topRequesters = getTopRequesters(game)
            /\ status.liveStats.popularSongs = getPopularSongs(game)
            /\ status.totalRequests = SumOfCounts(game.songRequests)

----------------------------------------------------------------------------
(* Polls with three options and three voters *)

PollVoters == {"alice", "bob", "carol"}
ThreeOptions == << <<"A">>, <<"B">>, <<"C">> >>

NextPercentages ==
    \/ \E sessionId \in Sessions : StartPoll(sessionId, ThreeOptions, MaxDuration)
    \/ \E sessionId \in Sessions, username \in PollVoters, i \in DOMAIN ThreeOptions :
          AddPollVote(sessionId, username, ThreeOptions[i])
    \/ \E sessionId \in Sessions : EndPoll(sessionId)
    \/ TimerStep
    \/ Tick

SpecPercentages == Init /\ [][NextPercentages]_vars

----------------------------------------------------------------------------
(* Properties: percentages of a poll *)

Abs(n) == IF n < 0 THEN 0 - n ELSE n

RECURSIVE SumOfPercentages(_)
SumOfPercentages(results) ==
    IF results = << >> THEN 0
    ELSE Head(results).percentage + SumOfPercentages(Tail(results))

\* p is an integer nearest to 100 * count / total
IsNearestPercent(p, count, total) == 2 * Abs(p * total - 100 * count) <= total

PercentagesOf(results, game) ==
    LET total == Size(game.votes)
    IN  /\ \A i \in DOMAIN results :
              /\ results[i].voteCount = Len(game.options[i].votes)
              /\ total > 0 =>
                    IsNearestPercent(results[i].percentage, results[i].voteCount, total)
              /\ total = 0 => results[i].percentage = 0
        /\ total > 0 => Abs(SumOfPercentages(results) - 100) <= Len(results)

\* C35: in the result of a poll that ends, every option's percentage is its
\* vote count over the number of voters times 100, rounded to the nearest
\* integer; with at least one vote the percentages sum to 100 give or take
\* one unit per option, and with no vote every percentage is 0.
C35_PercentagesOfVoters ==
    \A sessionId \in Sessions :
        ( /\ Has(activeGames, sessionId)
          /\ activeGames[sessionId].type = "poll"
          /\ Len(activeGames[sessionId].options) > 0 ) =>
        LET game == activeGames[sessionId]
            r == endPoll(GS, sessionId)
        IN  /\ ~r.threw
            /\ PercentagesOf(r.ret[1].results, game)
            /\ game.status = "ended" => PercentagesOf(game.results[1], game)

\* an ended poll of three options where two of three voters chose the first
\* and one the second: 67, 33 and 0 percent
C35_Witness ==
    \E sessionId \in Sessions :
        /\ Has(activeGames, sessionId)
        /\ activeGames[sessionId].type = "poll"
        /\ activeGames[sessionId].status = "ended"
        /\ Size(activeGames[sessionId].votes) = 3
        /\ activeGames[sessionId].results[1][1].percentage = 67
        /\ activeGames[sessionId].results[1][2].percentage = 33
        /\ activeGames[sessionId].results[1][3].percentage = 0

----------------------------------------------------------------------------
(* The lucky wheel with a configured keyword *)

\* what db.getGameSettings() resolves to after the keyword field of the
\* settings page was saved
KeywordSettings ==
    { Some([luckyWheel |-> [duration |-> 1, keyword |-> <<"g","o","!">>]]) }

KeywordMessages == WheelMessages \cup { <<"g","o","!">>, <<"G","O","!"," ","n","o","w">> }

NextKeyword ==
    \/ \E stored \in KeywordSettings : LoadSettings(stored)
    \/ \E sessionId \in Sessions : StartLuckyWheel(sessionId, MaxDuration)
    \/ \E sessionId \in Sessions, username \in Users, message \in KeywordMessages :
          AddLuckyWheelEntry(sessionId, username, message)
    \/ \E sessionId \in Sessions : EndLuckyWheel(sessionId)
    \/ TimerStep
    \/ Tick

SpecKeyword == Init /\ [][NextKeyword]_vars

----------------------------------------------------------------------------
(* Properties: the keyword of a lucky wheel *)

\* the character at index p of str is a letter or a digit
IsAlphanumericAt(str, p) ==
    /\ p >= 1
    /\ p <= Len(str)
    /\ str[p] \in Range(LowerCase) \cup Range(UpperCase) \cup Digits

\* message holds keyword as a word of its own, whatever the case of either:
\* an occurrence with no letter or digit right before it or right after it
ContainsAsSeparateWord(message, keyword) ==
    \E p \in 1 .. Len(message) :
        /\ OccursAt(toUpperCase(message), toUpperCase(keyword), p)
        /\ ~IsAlphanumericAt(message, p - 1)
        /\ ~IsAlphanumericAt(message, p + Len(keyword))

\* C36: a message is accepted as a lucky wheel entry exactly when the game is
\* collecting, the participant has no entry yet and the message holds the
\* keyword of the game as a separate word, whatever the case; the entry that
\* is recorded carries the message as it was sent.
C36_EntryIffKeywordAsWord ==
    \A sessionId \in Sessions, username \in Users, message \in KeywordMessages :
        LET r == addLuckyWheelEntry(GS, sessionId, username, message)
        IN  IF /\ CollectingWheel(sessionId)
               /\ ~HasEntryOf(activeGames[sessionId].entries, username)
               /\ ContainsAsSeparateWord(message, activeGames[sessionId].keyword)
            THEN /\ r.ret = TRUE
                 /\ r.this.activeGames[sessionId].entries =
                       Append(activeGames[sessionId].entries,
                              [username |-> username, message |-> message])
            ELSE r.ret = FALSE /\ r.this = GS

----------------------------------------------------------------------------
(* Properties: what counts as a vote *)

\* messages of the voting phase: letters in either case, with spaces around,
\* a label past D, two letters, nothing
BallotMessages ==
    VoteMessages \cup { <<"A">>, <<"d"," ">>, <<"A","B">>, <<"a"," ","b">>,
                        <<" ">>, << >> }

\* the label a message stands for: its only character that is not a space,
\* in upper case, when that is one of A, B, C, D
LabelsOf(message) ==
    {toUpperChar(message[p]) : p \in {q \in DOMAIN message :
        /\ toUpperChar(message[q]) \in {"A", "B", "C", "D"}
        /\ \A o \in DOMAIN message : o # q => message[o] = " "}}

\* the songs of the voting phase include one with this label
HasSongAt(topSongs, label) ==
    \E i \in DOMAIN topSongs : topSongs[i].letter = label

IsBallot(game, message) ==
    \E label \in LabelsOf(message) : HasSongAt(game.topSongs, label)

\* C37: in the voting phase of a DJ game a message is a vote exactly when its
\* text, trimmed and in upper case, is one of A, B, C, D and topSongs has a
\* song at that label: such a message of a viewer who has not voted for the
\* label is counted, and a message for a label with no song, or any other
\* text, returns false and leaves the votes as they are.
C37_VoteIffLabelOfASong ==
    \A sessionId \in Sessions :
        VotingDJGame(sessionId) =>
        \A username \in Users, message \in BallotMessages :
            LET game == djGames[sessionId]
                r == addVote(DJS, sessionId, username, message)
            IN  IF IsBallot(game, message)
                THEN LET label == CHOOSE l \in LabelsOf(message) : TRUE
                         voted == \E i \in LabelsVotedBy(game.votes, username) :
                                     game.votes[i].key = label
                     IN  /\ r.ret = ~voted
                         /\ CountOf(r.this.activeGames[sessionId].votes, label)
                               = CountOf(game.votes, label) + (IF voted THEN 0 ELSE 1)
                ELSE r.ret = FALSE /\ r.this = DJS

\* a voting phase with songs at A and B only, where a vote for A was counted
C37_Witness ==
    \E sessionId \in Sessions :
        /\ VotingDJGame(sessionId)
        /\ Len(djGames[sessionId].topSongs) = 2
        /\ CountOf(djGames[sessionId].votes, "A") = 1
        /\ ~IsBallot(djGames[sessionId], <<"d"," ">>)
        /\ IsBallot(djGames[sessionId], <<" ","B">>)

----------------------------------------------------------------------------
(* Properties: votes after the winner of a round *)

\* the winner of the round has been determined and the next round has not
\* started
InCoolDown(sessionId) ==
    /\ IsDJGame(sessionId)
    /\ djGames[sessionId].status # "ended"
    /\ IsSome(djGames[sessionId].winner)

\* C38: once endVotingPhase has determined the winner of a round no vote is
\* accepted for that round: until the next round starts addVote returns false
\* and the votes stay as they were when the winner was computed.
C38_NoVoteAfterTheWinner ==
    \A sessionId \in Sessions :
        InCoolDown(sessionId) =>
        \A username \in Users, message \in VoteMessages :
            LET r == addVote(DJS, sessionId, username, message)
            IN  /\ r.ret = FALSE
                /\ r.this.activeGames[sessionId].votes = djGames[sessionId].votes

----------------------------------------------------------------------------
(* Properties: the comments of a race participant *)

\* the commentCount of a viewer, 0 for one who has not commented
CommentCountOf(participants, username) ==
    IF participantIndex(participants, username) = 0 THEN 0
    ELSE participants[participantIndex(participants, username)].commentCount

\* C39: the commentCount of a race participant is the number of comments
\* accepted from that participant since the race started: every accepted
\* comment adds one to it, from none for a viewer who has not commented, so it
\* is 1 after the first comment and n after the n-th.
C39_CommentCountIsComments ==
    \A sessionId \in Sessions :
        ActiveRace(sessionId) =>
        \A username \in Users, message \in RaceMessages, moveDistance \in MoveDistances :
            LET r == addRaceParticipant(GS, sessionId, username, message, moveDistance)
            IN  /\ r.ret = TRUE
                /\ CommentCountOf(r.this.activeGames[sessionId].participants, username)
                      = CommentCountOf(activeGames[sessionId].participants, username) + 1

----------------------------------------------------------------------------
(* The history routes, with lucky wheels and DJ games of one session *)

\* the sessionId of a history query: absent, or that of a session
SessionFilters == {None} \cup {Some(sessionId) : sessionId \in Sessions}
Limits == {1, DefaultLimit}

NextHistory ==
    \/ \E sessionId \in Sessions, duration \in Durations :
          StartLuckyWheel(sessionId, duration)
    \/ \E sessionId \in Sessions : StartDJGame(sessionId)
    \/ \E sessionId \in Sessions :
          AddLuckyWheelEntry(sessionId, "alice", <<"G","A","M","E">>)
    \/ \E sessionId \in Sessions :
          AddSongRequest(sessionId, "alice", <<"s","o","n","g"," ","b">>)
    \/ \E sessionId \in Sessions : EndLuckyWheel(sessionId)
    \/ \E sessionId \in Sessions : EndDJGame(sessionId)
    \/ \E sessionId \in SessionFilters, limit \in Limits :
          GetGameHistory(sessionId, limit)
    \/ TimerStep
    \/ Tick

SpecHistory == Init /\ [][NextHistory]_vars

----------------------------------------------------------------------------
(* Properties: the history queries *)

MostRecentFirst(records) ==
    \A i, j \in DOMAIN records : i < j => records[i].startTime >= records[j].startTime

\* C40: a history query, with or without a session filter and with any limit,
\* returns at most limit records, the most recently started first, and leaves
\* the stored history as it is, the order of its records included.
C40_HistoryQueryChangesNothing ==
    \A sessionId \in SessionFilters, limit \in Limits :
        LET r == getGameHistory(GS, sessionId, limit)
            d == getDJGameHistory(DJS, sessionId, limit)
        IN  /\ Len(r.ret) <= limit /\ MostRecentFirst(r.ret)
            /\ r.this.gameHistory = gameHistory
            /\ Len(d.ret) <= limit /\ MostRecentFirst(d.ret)
            /\ d.this.gameHistory = djHistory

====
